---- MODULE Spec2Model ----
(***************************************************************************)
(* Code Cartographer: the inclusion policy (ConfigProcessor) and the       *)
(* document assembler (CodeCartographer.document) as a state machine,      *)
(* with the enumeration and quick analysis of a project, the loading of    *)
(* the configuration, the manual selection mode (FileSelector) and the     *)
(* checkboxes of its webview, the CSV writer, the ignore-file parser and   *)
(* the DocumentationViewer, each under a specification of its own.         *)
(*                                                                         *)
(* Paths are sequences of segment names relative to the project root, the  *)
(* root itself being the empty sequence.  A glob pattern is a sequence of  *)
(* pattern segments.                                                       *)
(***************************************************************************)
EXTENDS Integers, Sequences, FiniteSets, TLC

VARIABLES
    config,          \* ConfigProcessor.config (the merged configuration)
    files,           \* the filesystem: path -> kind of the entry at that path
    gitignoreRules,  \* the pattern lines of <root>/.gitignore
    options,         \* the DocumentOptions passed to document()
    qPath,           \* policy query: the path last asked about
    qInclude,        \* policy query: the answer of shouldIncludeFile
    qMaxSize,        \* policy query: the answer of getMaxFileSizeForPath
    processedFiles,  \* CodeCartographer.processedFiles
    stats,           \* CodeCartographer.stats
    pc,              \* where the current document() call stands
    runs,            \* number of document() calls made on the instance
    docType,         \* document(): the resolved documentation type
    fileStructure,   \* document(): <<tree>> once built, <<>> while null
    filesToProcess,  \* document(): the candidate list of the content phase
    batchStart,      \* document(): the loop index i of the batch loop
    ops,             \* the processFile operations of the batch in flight
    fileContents,    \* document(): the File Records collected so far
    processed,       \* document(): the counter of candidates handed out
    progress,        \* the percents reported through onProgress in this run
    error,           \* the error the current document() call rejected with
    raised,          \* the error mkdir or writeFile raised in this run, if any
    payloads,        \* the outputData built by each run so far
    passCount,       \* per path: invocations past the processed check, this run
    errored,         \* paths whose processing raised an error in this run
    cancelled,       \* the cancellation token the caller holds for this run
    written,         \* the tree as this run serialized it, <<>> before
    enumerated,      \* getAllFiles(rootDir): the list a caller got back
    enumRejected,    \* getAllFiles(rootDir): whether the call rejected
    summary,         \* quickAnalyze(rootDir): <<stats>> once returned
    selection,       \* FileSelector: the generate message of the webview
    configFiles,     \* what is found at the three configuration locations
    settings,        \* the host settings (workspace.getConfiguration)
    csvNode,         \* writeCsvOutput: the tree node of the row written
    csvRow,          \* writeCsvOutput: the fields of that row, as written
    gitignoreFile,   \* what is found at the ignore-file path
    qIgnored,        \* the answer of the predicate parseGitignore returned
    checkbox,        \* FileSelector webview: the class of the checkbox of each node
    selectedItems,   \* FileSelector webview: state.selectedItems
    panel,           \* DocumentationViewer.panel: <<panel>> while open, <<>> if undefined
    listeners,       \* the message listeners registered on the webview of the panel
    opened           \* the vscode.open commands the last webview message triggered

policyVars == <<config, files, gitignoreRules, options, qPath, qInclude, qMaxSize>>
runVars == <<processedFiles, stats, pc, runs, docType, fileStructure, filesToProcess,
             batchStart, ops, fileContents, processed, progress, error, raised,
             payloads, passCount, errored, cancelled, written>>
toolVars == <<enumerated, enumRejected, summary, selection, configFiles, settings,
              csvNode, csvRow, gitignoreFile, qIgnored>>
viewVars == <<checkbox, selectedItems, panel, listeners, opened>>
vars == <<policyVars, runVars, toolVars, viewVars>>

(***************************************************************************)
(* Bounds of the model.                                                    *)
(***************************************************************************)
MaxOverrides == 2
MaxItems == 2
MaxRuns == 2
MaxLines == 2
MaxPaths == 3
MaxShows == 3

(***************************************************************************)
(* The path universe.                                                      *)
(***************************************************************************)
SrcDir   == <<"src">>
DistDir  == <<"dist">>
SrcA     == <<"src", "a.ts">>
SrcB     == <<"src", "b.md">>
DistJs   == <<"dist", "bundle.js">>

\* rootDir, and path.join(rootDir, rel): absolute paths start with the root
rootDir == <<"proj">>
Abs(rel) == rootDir \o rel

DirPaths  == {Abs(SrcDir), Abs(DistDir)}
FilePaths == {Abs(SrcA), Abs(SrcB), Abs(DistJs)}
AllPaths  == DirPaths \cup FilePaths

\* the larger project the enumeration is walked over: a file directly in the
\* root, a nested directory, and a top-level directory called "constructor"
Readme  == <<"README.md">>
LibDir  == <<"src", "lib">>
LibC    == <<"src", "lib", "c.ts">>
LibD    == <<"src", "lib", "D.TS">>
CtorDir == <<"constructor">>
CtorX   == <<"constructor", "x.ts">>

WalkDirs  == DirPaths \cup {rootDir, Abs(LibDir), Abs(CtorDir)}
WalkFiles == FilePaths \cup {Abs(Readme), Abs(LibC), Abs(LibD), Abs(CtorX)}

\* path.extname(name).toLowerCase() of the segment names of the universe
ExtName(name) ==
    CASE name \in {"a.ts", "c.ts", "D.TS", "x.ts"} -> ".ts"
      [] name \in {"b.md", "README.md"}            -> ".md"
      [] name = "bundle.js"                        -> ".js"
      [] OTHER                                     -> ""

\* path.extname of a segment name, in the case the name has it
extname(name) == IF name = "D.TS" THEN ".TS" ELSE ExtName(name)

(***************************************************************************)
(* Glob matching (micromatch.isMatch with {dot: true}).                    *)
(***************************************************************************)
\* one pattern segment against one path segment: "*" is any one segment,
\* "*.ext" any segment with that extension (matching is case-sensitive),
\* anything else a literal
SegMatch(pseg, seg) ==
    CASE pseg = "*"    -> TRUE
      [] pseg = "*.ts" -> extname(seg) = ".ts"
      [] pseg = "*.md" -> extname(seg) = ".md"
      [] OTHER         -> pseg = seg

RECURSIVE GlobMatch(_, _)
\* "**" spans zero or more whole segments (so "dist/**" also matches "dist")
GlobMatch(pat, path) ==
    IF pat = <<>> THEN path = <<>>
    ELSE IF Head(pat) = "**"
         THEN \/ GlobMatch(Tail(pat), path)
              \/ (path # <<>> /\ GlobMatch(pat, Tail(path)))
         ELSE /\ path # <<>>
              /\ SegMatch(Head(pat), Head(path))
              /\ GlobMatch(Tail(pat), Tail(path))

\* micromatch.isMatch(str, patterns): some pattern of the list matches; the
\* empty string matches nothing and the empty list matches nothing
isMatch(path, patterns) ==
    /\ path # <<>>
    /\ \E i \in 1..Len(patterns) : GlobMatch(patterns[i], path)

PAll  == <<"**", "*">>
PTs   == <<"**", "*.ts">>
PMd   == <<"**", "*.md">>
PSrc  == <<"src", "**">>
PDist == <<"dist", "**">>

(***************************************************************************)
(* ConfigProcessor: the inclusion policy.                                  *)
(***************************************************************************)
\* Override names that are canonical array indices, with their numeric value
IntegerKeys == {"1", "2"}
KeyValue(name) == IF name = "1" THEN 1 ELSE 2

RECURSIVE SortByKey(_)
\* the entries of seq (all with integer-like names) in ascending numeric order
SortByKey(seq) ==
    IF seq = <<>> THEN <<>>
    ELSE LET m == CHOOSE i \in 1..Len(seq) :
                    \A j \in 1..Len(seq) : KeyValue(seq[i].name) <= KeyValue(seq[j].name)
         IN  <<seq[m]>> \o SortByKey(SubSeq(seq, 1, m - 1) \o SubSeq(seq, m + 1, Len(seq)))

IsIntegerEntry(e) == e.name \in IntegerKeys
IsStringEntry(e)  == e.name \notin IntegerKeys

\* Object.entries(customFiles): own property order, which is the integer-like
\* keys in ascending numeric order, then the other keys in the order in which
\* they were declared
ObjectEntries(customFiles) ==
    SortByKey(SelectSeq(customFiles, IsIntegerEntry)) \o SelectSeq(customFiles, IsStringEntry)

\* path.relative(rootPath, filePath) with the separators normalised, for a
\* path at or below the root: the segments after the root's
relativePath(filePath) == SubSeq(filePath, Len(rootDir) + 1, Len(filePath))

shouldIncludeFileIncludeFirst(filePath) ==
    LET rel == relativePath(filePath) IN
    IF isMatch(rel, config.include) THEN TRUE
    ELSE IF isMatch(rel, config.exclude) THEN FALSE
    ELSE /\ config.hasCustomFiles
         /\ \E i \in 1..Len(config.customFiles) : isMatch(rel, config.customFiles[i].include)

shouldIncludeFileEmptyIncludeRejects(filePath) ==
    LET rel == relativePath(filePath) IN
    IF isMatch(rel, config.exclude) \/ config.include = <<>> THEN FALSE
    ELSE \/ isMatch(rel, config.include)
         \/ /\ config.hasCustomFiles
            /\ \E i \in 1..Len(config.customFiles) : isMatch(rel, config.customFiles[i].include)

shouldIncludeFileNoOverrides(filePath) ==
    LET rel == relativePath(filePath) IN
    IF isMatch(rel, config.exclude) THEN FALSE
    ELSE isMatch(rel, config.include)

shouldIncludeFile(filePath) ==
    LET rel == relativePath(filePath) IN
    IF isMatch(rel, config.exclude) THEN FALSE
    ELSE IF isMatch(rel, config.include) THEN TRUE
    ELSE IF config.hasCustomFiles
         THEN LET entries == ObjectEntries(config.customFiles)
              IN  \E i \in 1..Len(entries) : isMatch(rel, entries[i].include)
         ELSE FALSE

RECURSIVE FirstSized(_, _)
\* the loop of getMaxFileSizeForPath: the maxSize of the first entry whose
\* include list matches and whose maxSize is defined (an optional value is
\* <<>> when undefined and <<v>> when defined), <<>> when there is none
FirstSized(entries, rel) ==
    IF entries = <<>> THEN <<>>
    ELSE IF isMatch(rel, Head(entries).include) /\ Head(entries).maxSize # <<>>
         THEN Head(entries).maxSize
         ELSE FirstSized(Tail(entries), rel)

getMaxFileSizeForPathFirstMatch(filePath) ==
    LET rel     == relativePath(filePath)
        entries == IF config.hasCustomFiles THEN ObjectEntries(config.customFiles)
                   ELSE <<>>
        hits    == {i \in 1..Len(entries) : isMatch(rel, entries[i].include)}
        first   == CHOOSE i \in hits : \A j \in hits : i <= j
    IN  IF hits # {} /\ entries[first].maxSize # <<>>
        THEN entries[first].maxSize[1]
        ELSE config.maxFileSize

getMaxFileSizeForPath(filePath) ==
    IF config.hasCustomFiles
    THEN LET sized == FirstSized(ObjectEntries(config.customFiles), relativePath(filePath))
         IN  IF sized # <<>> THEN sized[1] ELSE config.maxFileSize
    ELSE config.maxFileSize

(***************************************************************************)
(* Configurations the policy is checked under.                             *)
(***************************************************************************)
IncludeLists == {<<>>, <<PAll>>, <<PTs>>, <<PSrc>>}
ExcludeLists == {<<>>, <<PDist>>, <<PMd>>, <<PDist, PMd>>}

OverrideNames   == {"1", "2", "docs"}
OverrideEntries == [name : OverrideNames, include : {<<PTs>>, <<PSrc>>},
                    maxSize : {<<>>, <<3>>, <<8>>}]

\* the customFiles objects with at most MaxOverrides properties, as the list
\* of their properties in the order in which the file declares them
OverrideLists ==
    {l \in UNION {[1..n -> OverrideEntries] : n \in 0..MaxOverrides} :
        \A i, j \in 1..Len(l) : i # j => l[i].name # l[j].name}

PolicyConfigs ==
    {[include |-> inc, exclude |-> exc, hasCustomFiles |-> has, customFiles |-> cf,
      maxFileSize |-> 5, skipBinaryFiles |-> TRUE, skipGeneratedFiles |-> TRUE,
      type |-> "both"] :
        inc \in IncludeLists, exc \in ExcludeLists,
        has \in BOOLEAN, cf \in OverrideLists} \ 
    {c \in [include : IncludeLists, exclude : ExcludeLists, hasCustomFiles : {FALSE},
            customFiles : OverrideLists, maxFileSize : {5}, skipBinaryFiles : {TRUE},
            skipGeneratedFiles : {TRUE}, type : {"both"}] : c.customFiles # <<>>}

NoOptions == [includeItems |-> <<>>, documentationType |-> ""]

(***************************************************************************)
(* The filesystem below the root.                                          *)
(***************************************************************************)
DirEntry == [kind |-> "dir", size |-> 0, chars |-> 0]
Missing  == [kind |-> "missing", size |-> 0, chars |-> 0]

\* the filesystems of the model: what is found at each path of the universe;
\* the last one is a project without any file
FileSystems ==
    {(Abs(SrcDir) :> DirEntry) @@ (Abs(DistDir) :> DirEntry) @@
     (Abs(SrcA) :> a) @@ (Abs(SrcB) :> b) @@ (Abs(DistJs) :> j) :
        a \in {[kind |-> "text", size |-> 2, chars |-> 2],
               [kind |-> "unreadable", size |-> 2, chars |-> 0], Missing},
        b \in {[kind |-> "text", size |-> 6, chars |-> 6],
               [kind |-> "generated", size |-> 6, chars |-> 6]},
        j \in {[kind |-> "binary", size |-> 9, chars |-> 0],
               [kind |-> "text", size |-> 4, chars |-> 4]}}
    \cup {(Abs(SrcDir) :> DirEntry) @@ (Abs(DistDir) :> DirEntry) @@
          (Abs(SrcA) :> Missing) @@ (Abs(SrcB) :> Missing) @@ (Abs(DistJs) :> Missing)}

\* fs.readdir(dir): the names found in a directory, in the order returned
readdir(dir) ==
    LET names == CASE dir = rootDir      -> <<"README.md", "constructor", "dist", "src">>
                   [] dir = Abs(SrcDir)  -> <<"a.ts", "b.md", "lib">>
                   [] dir = Abs(DistDir) -> <<"bundle.js">>
                   [] dir = Abs(LibDir)  -> <<"D.TS", "c.ts">>
                   [] dir = Abs(CtorDir) -> <<"x.ts">>
                   [] OTHER              -> <<>>
        Exists(name) == /\ Append(dir, name) \in DOMAIN files
                        /\ files[Append(dir, name)].kind # "missing"
    IN  SelectSeq(names, Exists)

\* fs.readdir(dir) fails (EACCES, EIO ...): the directory cannot be listed
readdirThrows(dir) == dir \in DOMAIN files /\ files[dir].kind = "baddir"

isDirectory(p) == files[p].kind \in {"dir", "baddir"}
isFile(p) == files[p].kind \in {"text", "binary", "generated", "unreadable"}

(***************************************************************************)
(* CodeCartographer: construction.                                         *)
(***************************************************************************)
Extensions == {".ts", ".md", ".js", ""}

InitialStats ==
    [totalFiles |-> 0, totalDocumentedFiles |-> 0, totalSize |-> 0, documentedSize |-> 0,
     largestFile |-> [path |-> <<>>, size |-> 0],
     fileTypes |-> [e \in Extensions |-> 0], totalTokenCount |-> 0]

\* the state of a CodeCartographer after its constructor
InstanceInit ==
    /\ processedFiles = {}
    /\ stats = InitialStats
    /\ pc = "idle"
    /\ runs = 0
    /\ docType = ""
    /\ fileStructure = <<>>
    /\ filesToProcess = <<>>
    /\ batchStart = 0
    /\ ops = <<>>
    /\ fileContents = <<>>
    /\ processed = 0
    /\ progress = <<>>
    /\ error = ""
    /\ raised = ""
    /\ payloads = <<>>
    /\ passCount = [p \in AllPaths |-> 0]
    /\ errored = {}
    /\ cancelled = FALSE
    /\ written = <<>>

NoSelection == [items |-> <<>>, honorGitignore |-> FALSE, honorConfigFile |-> FALSE,
                sent |-> FALSE]
NoSettings  == [outputFormat |-> <<>>, documentationType |-> <<>>, ignorePatterns |-> <<>>]
NoIgnoreFile == [state |-> "absent", content |-> <<>>]

\* the nodes of the tree the file selector shows: the root and all below it
SelectorNodes == WalkDirs \cup WalkFiles

\* no webview is in use
ViewsIdle ==
    /\ checkbox = [n \in SelectorNodes |-> ""]
    /\ selectedItems = {}
    /\ panel = <<>>
    /\ listeners = <<>>
    /\ opened = <<>>

\* nothing but document() and the policy is in use
ToolsIdle ==
    /\ enumerated = <<>>
    /\ enumRejected = FALSE
    /\ summary = <<>>
    /\ selection = NoSelection
    /\ configFiles = <<>>
    /\ settings = NoSettings
    /\ csvNode = <<>>
    /\ csvRow = <<>>
    /\ gitignoreFile = NoIgnoreFile
    /\ qIgnored = <<>>
    /\ ViewsIdle

(***************************************************************************)
(* The policy alone: a configuration is loaded, then paths are asked about.*)
(***************************************************************************)
InitPolicy ==
    /\ config \in PolicyConfigs
    /\ files = [p \in AllPaths |-> "text"]
    /\ gitignoreRules = <<>>
    /\ options = NoOptions
    /\ qPath = <<>>
    /\ qInclude = FALSE
    /\ qMaxSize = 0
    /\ InstanceInit
    /\ ToolsIdle

\* a caller asks the policy about one path
Query(p) ==
    /\ qPath' = p
    /\ qInclude' = shouldIncludeFile(p)
    /\ qMaxSize' = getMaxFileSizeForPath(p)
    /\ UNCHANGED <<config, files, gitignoreRules, options>>
    /\ UNCHANGED <<runVars, toolVars, viewVars>>

NextPolicy == \E p \in AllPaths : Query(p)

SpecPolicy == InitPolicy /\ [][NextPolicy]_vars

(***************************************************************************)
(* Properties of the inclusion policy.                                    *)
(***************************************************************************)
Asked == qPath # <<>>
ExcludeHit  == isMatch(relativePath(qPath), config.exclude)
IncludeHit  == isMatch(relativePath(qPath), config.include)
\* the overrides of the configuration, as declared, whose include list matches
OverrideHits ==
    {i \in 1..Len(config.customFiles) :
        config.hasCustomFiles /\ isMatch(relativePath(qPath), config.customFiles[i].include)}

\* C1: a path matched by an exclude pattern is rejected by shouldIncludeFile,
\* whatever the include patterns and the overrides say about it.
C1_ExcludeDominates == (Asked /\ ExcludeHit) => ~qInclude

C1_Witness == Asked /\ ExcludeHit /\ IncludeHit /\ OverrideHits # {} /\ ~qInclude

\* C2: shouldIncludeFile accepts a path exactly when no exclude pattern
\* matches it and an include pattern or some override's include list does.
C2_IncludeIff ==
    Asked => (qInclude <=> (~ExcludeHit /\ (IncludeHit \/ OverrideHits # {})))

C2_Witness ==
    /\ Asked /\ ~ExcludeHit /\ ~IncludeHit /\ OverrideHits = {}
    /\ config.hasCustomFiles /\ config.customFiles # <<>> /\ ~qInclude

\* C3: with empty include and exclude lists, a path matched by an override's
\* include list is accepted.
C3_OverrideOnlyIncludes ==
    (Asked /\ config.include = <<>> /\ config.exclude = <<>> /\ OverrideHits # {})
        => qInclude

C3_Witness ==
    Asked /\ config.include = <<>> /\ config.exclude = <<>> /\ OverrideHits # {} /\ qInclude

\* the overrides that match the asked path and define a maxSize
SizedHits == {i \in OverrideHits : config.customFiles[i].maxSize # <<>>}

\* override i is enumerated before override j by Object.entries
EnumeratedBefore(i, j) ==
    LET a == config.customFiles[i].name
        b == config.customFiles[j].name
    IN  IF a \in IntegerKeys
        THEN b \in IntegerKeys => KeyValue(a) < KeyValue(b)
        ELSE b \notin IntegerKeys /\ i < j

\* C4 as stated: the global maxFileSize when no matching override defines a
\* maxSize, else the maxSize of the first such override in declaration order.
C4_DeclarationOrder ==
    Asked => qMaxSize =
        IF SizedHits = {} THEN config.maxFileSize
        ELSE config.customFiles[CHOOSE i \in SizedHits : \A j \in SizedHits : i <= j].maxSize[1]

\* C4 amended: the global maxFileSize when no matching override defines a
\* maxSize, else the maxSize of the first such override in the enumeration
\* order of the customFiles object (integer-like names ascending, then the
\* other names as declared).
C4_EnumerationOrder ==
    Asked => qMaxSize =
        IF SizedHits = {} THEN config.maxFileSize
        ELSE config.customFiles[CHOOSE i \in SizedHits :
                \A j \in SizedHits \ {i} : EnumeratedBefore(i, j)].maxSize[1]

C4_Witness ==
    /\ Asked
    /\ \E i, j \in SizedHits :
          /\ i < j /\ EnumeratedBefore(j, i)
          /\ config.customFiles[i].maxSize # config.customFiles[j].maxSize
          /\ qMaxSize = config.customFiles[j].maxSize[1]

(***************************************************************************)
(* CodeCartographer: enumeration and the structure tree.                   *)
(***************************************************************************)
RECURSIVE tryGetAllFiles(_)
RECURSIVE getAllEntries(_, _)
RECURSIVE getAllEntriesUnpruned(_, _)
\* the entries of dir with every directory descended into
getAllEntriesUnpruned(dir, names) ==
    IF names = <<>> THEN [files |-> <<>>, threw |-> FALSE]
    ELSE LET fullPath == Append(dir, Head(names))
             found == IF isDirectory(fullPath) THEN tryGetAllFiles(fullPath)
                      ELSE [files |-> IF isFile(fullPath) THEN <<fullPath>> ELSE <<>>,
                            threw |-> FALSE]
             rest  == getAllEntriesUnpruned(dir, Tail(names))
         IN  [files |-> found.files \o rest.files, threw |-> found.threw \/ rest.threw]

\* the entries of dir, each mapped to the list of files it contributes,
\* flattened in entry order (Promise.all, then flat); the whole rejects when
\* the promise of one entry rejects
getAllEntries(dir, names) ==
    IF names = <<>> THEN [files |-> <<>>, threw |-> FALSE]
    ELSE LET fullPath == Append(dir, Head(names))
             found == IF isDirectory(fullPath)
                      THEN IF ~shouldIncludeFile(fullPath)
                           THEN [files |-> <<>>, threw |-> FALSE]
                           ELSE tryGetAllFiles(fullPath)
                      ELSE [files |-> IF isFile(fullPath) THEN <<fullPath>> ELSE <<>>,
                            threw |-> FALSE]
             rest  == getAllEntries(dir, Tail(names))
         IN  [files |-> found.files \o rest.files, threw |-> found.threw \/ rest.threw]

\* the try block alone: the error of readdir, or of an entry, leaves the call
tryGetAllFilesUncaught(dir) ==
    IF readdirThrows(dir) THEN [files |-> <<>>, threw |-> TRUE]
    ELSE getAllEntries(dir, readdir(dir))

\* getAllFiles(dir) with its outcome: the catch block turns any error raised
\* in the try block into the empty list
tryGetAllFiles(dir) ==
    LET body == IF readdirThrows(dir) THEN [files |-> <<>>, threw |-> TRUE]
                ELSE getAllEntries(dir, readdir(dir))
    IN  IF body.threw THEN [files |-> <<>>, threw |-> FALSE] ELSE body

getAllFiles(dir) == tryGetAllFiles(dir).files

\* the node of the tree at a relative path, if any
HasNode(tree, rel) == \E k \in 1..Len(tree) : tree[k].path = rel

RECURSIVE addParts(_, _, _)
RECURSIVE addPartsNoFind(_, _, _)
\* the loop with a node pushed for every part, found or not
addPartsNoFind(tree, fullPath, i) ==
    LET parts  == relativePath(fullPath)
        isLast == i = Len(parts)
    IN  IF i > Len(parts) THEN [tree |-> tree, threw |-> FALSE]
        ELSE IF isLast /\ files[fullPath].kind = "missing"
             THEN [tree |-> tree, threw |-> TRUE]
             ELSE LET file == isLast /\ isFile(fullPath)
                      node == [path |-> SubSeq(parts, 1, i), name |-> parts[i],
                               type |-> IF file THEN "file" ELSE "directory",
                               size |-> IF file THEN files[fullPath].size ELSE 0]
                  IN  addPartsNoFind(Append(tree, node), fullPath, i + 1)

\* the loop of addPathToStructure from part i on: [tree, threw]
addParts(tree, fullPath, i) ==
    LET parts  == relativePath(fullPath)
        isLast == i = Len(parts)
    IN  IF i > Len(parts) THEN [tree |-> tree, threw |-> FALSE]
        ELSE IF isLast /\ files[fullPath].kind = "missing"
             \* fs.statSync(fullPath) throws ENOENT
             THEN [tree |-> tree, threw |-> TRUE]
             ELSE LET file == isLast /\ isFile(fullPath)
                      rel  == SubSeq(parts, 1, i)
                      node == [path |-> rel, name |-> parts[i],
                               type |-> IF file THEN "file" ELSE "directory",
                               size |-> IF file THEN files[fullPath].size ELSE 0]
                  IN  addParts(IF HasNode(tree, rel) THEN tree ELSE Append(tree, node),
                               fullPath, i + 1)

\* addPathToStructure(structure, fullPath, relativePath).  The tree is the
\* list of its nodes below the root in creation order, each with its
\* root-relative path; the children of a node are the nodes one segment
\* below it, in that order.
addPathToStructure(tree, fullPath) == addParts(tree, fullPath, 1)

RECURSIVE addAll(_, _)
addAll(tree, paths) ==
    IF paths = <<>> THEN [tree |-> tree, threw |-> FALSE]
    ELSE LET r == addPathToStructure(tree, Head(paths))
         IN  IF r.threw THEN r ELSE addAll(r.tree, Tail(paths))

\* the tree of the documented files only: the content gates applied as well
getFileStructureDocumentedOnly(includeItems) ==
    LET toProcess == IF Len(includeItems) = 0 THEN getAllFiles(rootDir) ELSE includeItems
        Kept(p)   == /\ shouldIncludeFile(p)
                     /\ files[p].size <= getMaxFileSizeForPath(p)
                     /\ files[p].kind \notin {"binary", "generated"}
    IN  addAll(<<>>, SelectSeq(toProcess, Kept))

\* getFileStructure(includeItems): [tree, threw]
getFileStructure(includeItems) ==
    LET toProcess == IF Len(includeItems) = 0 THEN getAllFiles(rootDir) ELSE includeItems
        filtered  == SelectSeq(toProcess, shouldIncludeFile)
    IN  addAll(<<>>, filtered)

(***************************************************************************)
(* Serialization of the tree: the nodes in the order they are written.     *)
(***************************************************************************)
\* structure.children of the node at path parent, in insertion order
children(tree, parent) ==
    LET IsChild(n) == /\ Len(n.path) = Len(parent) + 1
                      /\ SubSeq(n.path, 1, Len(parent)) = parent
    IN  SelectSeq(tree, IsChild)

RECURSIVE insertionOrder(_, _)
\* the nodes below a list of siblings as a recursion over structure.children
\* meets them: JSON.stringify and formatStructureAsCsv
insertionOrder(tree, siblings) ==
    IF siblings = <<>> THEN <<>>
    ELSE <<Head(siblings)>> \o insertionOrder(tree, children(tree, Head(siblings).path))
            \o insertionOrder(tree, Tail(siblings))

\* the place of a name among the names of the model under
\* String.prototype.localeCompare: letters compare without regard to case
\* first, and the dot sorts before any letter
localeCompareRank(name) ==
    CASE name = "a.ts"        -> 1
      [] name = "b.md"        -> 2
      [] name = "bundle.js"   -> 3
      [] name = "c.ts"        -> 4
      [] name = "constructor" -> 5
      [] name = "D.TS"        -> 6
      [] name = "dist"        -> 7
      [] name = "lib"         -> 8
      [] name = "README.md"   -> 9
      [] name = "src"         -> 10
      [] OTHER                -> 11

\* the comparator of the sort in formatStructureAsTxt is negative
sortsBefore(a, b) ==
    IF a.type # b.type THEN a.type = "directory"
    ELSE localeCompareRank(a.name) < localeCompareRank(b.name)

RECURSIVE sortedChildren(_)
\* [...structure.children].sort(comparator): a stable sort
sortedChildren(nodes) ==
    IF nodes = <<>> THEN <<>>
    ELSE LET m == CHOOSE i \in 1..Len(nodes) :
                     /\ \A j \in 1..Len(nodes) : ~sortsBefore(nodes[j], nodes[i])
                     /\ \A j \in 1..(i - 1) : sortsBefore(nodes[j], nodes[i])
                                                \/ sortsBefore(nodes[i], nodes[j])
             rest == [k \in 1..(Len(nodes) - 1) |-> IF k < m THEN nodes[k] ELSE nodes[k + 1]]
         IN  <<nodes[m]>> \o sortedChildren(rest)

RECURSIVE formatStructureAsTxt(_, _)
\* the nodes below a list of sorted siblings as formatStructureAsTxt writes
\* them, the children of each sorted in turn
formatStructureAsTxt(tree, siblings) ==
    IF siblings = <<>> THEN <<>>
    ELSE <<Head(siblings)>>
            \o formatStructureAsTxt(tree, sortedChildren(children(tree, Head(siblings).path)))
            \o formatStructureAsTxt(tree, Tail(siblings))

Formats == {"json", "txt", "csv"}

\* the switch on the format: the nodes of data.file_structure in the order
\* of the output, none when the structure is null
serialize(format, structure) ==
    [format |-> format,
     nodes  |-> IF structure = <<>> THEN <<>>
                ELSE IF format = "txt"
                     THEN formatStructureAsTxt(structure[1],
                                               sortedChildren(children(structure[1], <<>>)))
                     ELSE insertionOrder(structure[1], children(structure[1], <<>>))]

(***************************************************************************)
(* FileProcessor.processFile(filePath, options), in two steps: the stat    *)
(* (after which onProgress is called and the size gate applies) and the    *)
(* read (binary gate, decoding, generated gate).                           *)
(***************************************************************************)
\* the stat fails on a path that does not exist
statThrows(filePath) == files[filePath].kind = "missing"

\* the file is larger than the effective maximum and is skipped unread
tooLarge(filePath, maxSize) == files[filePath].size > maxSize

\* the read fails on a file that cannot be read
readThrows(filePath) == files[filePath].kind \in {"unreadable", "dir"}

\* the content gates: a binary file when binary files are skipped, a
\* generated file when generated files are skipped
gated(filePath, skipBinary, skipGenerated) ==
    \/ skipBinary /\ files[filePath].kind = "binary"
    \/ skipGenerated /\ files[filePath].kind = "generated"

(***************************************************************************)
(* CodeCartographer.processFile and the statistics.                        *)
(***************************************************************************)
batchSize == 20

calculateTokenCount(chars) == (chars + 3) \div 4

\* the onProgress callback handed to the file processor
onProgress(st, filePath, fileSize) ==
    LET ext == ExtName(filePath[Len(filePath)])
    IN  [st EXCEPT !.totalFiles = @ + 1,
                   !.totalSize = @ + fileSize,
                   !.largestFile = IF fileSize > @.size
                                   THEN [path |-> filePath, size |-> fileSize] ELSE @,
                   !.fileTypes[ext] = @ + 1]

\* the statistics after a result came back for a file
onResult(st, size, chars) ==
    [st EXCEPT !.totalDocumentedFiles = @ + 1,
               !.documentedSize = @ + size,
               !.totalTokenCount = IF chars > 0 THEN @ + calculateTokenCount(chars) ELSE @]

\* processFile up to its first await: the processed check, the insertion
\* into processedFiles and the policy check.  "null" is an operation that
\* has returned null, "stat" one that waits for the file processor.
processFileSync(filePath, done) ==
    IF filePath \in done
    THEN [path |-> filePath, st |-> "null", passed |-> FALSE]
    ELSE IF ~shouldIncludeFile(filePath)
         THEN [path |-> filePath, st |-> "null", passed |-> TRUE]
         ELSE [path |-> filePath, st |-> "stat", passed |-> TRUE]

RECURSIVE startOps(_, _)
\* batch.map(filePath => this.processFile(filePath)): the operations of a
\* batch are started one after the other, each running to its first await
startOps(batch, done) ==
    IF batch = <<>> THEN <<>>
    ELSE <<processFileSync(Head(batch), done)>>
            \o startOps(Tail(batch), done \cup {Head(batch)})

Range(seq) == {seq[k] : k \in 1..Len(seq)}

\* the File Record processFile returns for a documented file
FileRecord(filePath) ==
    [path |-> relativePath(filePath), size |-> files[filePath].size,
     chars |-> files[filePath].chars]

(***************************************************************************)
(* CodeCartographer.document.                                              *)
(***************************************************************************)
reportProgress(percent) == progress' = Append(progress, percent)

wantsStructure(type) == type \in {"structure", "both"}
wantsContent(type) == type \in {"documentation", "both"}

\* document() is called: the callback is stored, 0 is reported and the
\* documentation type is resolved from the option, else the configuration
StartRun ==
    /\ pc \in {"idle", "done", "rejected"}
    /\ runs < MaxRuns
    /\ runs' = runs + 1
    /\ progress' = <<0>>
    /\ LET type == IF options.documentationType # "" THEN options.documentationType
                   ELSE config.type
       IN  /\ docType' = type
           /\ pc' = IF wantsStructure(type) THEN "structure"
                    ELSE IF wantsContent(type) THEN "content" ELSE "finalize"
    /\ fileStructure' = <<>>
    /\ fileContents' = <<>>
    /\ filesToProcess' = <<>>
    /\ batchStart' = 0
    /\ processed' = 0
    /\ ops' = <<>>
    /\ error' = ""
    /\ raised' = ""
    /\ passCount' = [p \in AllPaths |-> 0]
    /\ errored' = {}
    /\ cancelled' = FALSE
    /\ written' = <<>>
    /\ UNCHANGED <<policyVars, toolVars, viewVars, processedFiles, stats, payloads>>

\* the structure phase: the tree is built, or the call rejects with the
\* error addPathToStructure threw
StructurePhase ==
    /\ pc = "structure"
    /\ reportProgress(10)
    /\ LET r == getFileStructure(options.includeItems)
       IN  IF r.threw
           THEN /\ pc' = "rejected"
                /\ error' = "ENOENT"
                /\ UNCHANGED fileStructure
           ELSE /\ pc' = IF wantsContent(docType) THEN "content" ELSE "finalize"
                /\ fileStructure' = <<r.tree>>
                /\ UNCHANGED error
    /\ UNCHANGED <<policyVars, toolVars, viewVars, cancelled, written, processedFiles, stats, runs, docType, filesToProcess,
                   batchStart, ops, fileContents, processed, payloads, raised, passCount, errored>>

\* the content phase begins: the candidate list is resolved
ContentPhase ==
    /\ pc = "content"
    /\ reportProgress(30)
    /\ filesToProcess' = IF Len(options.includeItems) > 0 THEN options.includeItems
                         ELSE getAllFiles(rootDir)
    /\ processed' = 0
    /\ batchStart' = 0
    /\ pc' = "loop"
    /\ UNCHANGED <<policyVars, toolVars, viewVars, cancelled, written, processedFiles, stats, runs, docType, fileStructure,
                   ops, fileContents, error, payloads, raised, passCount, errored>>

\* no batches: the operations of all the candidates left are started at once
StartBatchUnbatched ==
    /\ pc = "loop"
    /\ batchStart < Len(filesToProcess)
    /\ LET batch == SubSeq(filesToProcess, batchStart + 1, Len(filesToProcess))
           started == startOps(batch, processedFiles)
       IN  /\ ops' = started
           /\ processedFiles' = processedFiles \cup Range(batch)
           /\ passCount' = [p \in AllPaths |->
                 passCount[p] + Cardinality({k \in 1..Len(started) :
                                    started[k].path = p /\ started[k].passed})]
    /\ pc' = "batch"
    /\ UNCHANGED <<raised, policyVars, toolVars, viewVars, cancelled, written, stats, runs, docType, fileStructure, filesToProcess,
                   batchStart, fileContents, processed, progress, error, payloads, errored>>

\* one more batch: its operations are all started
StartBatch ==
    /\ pc = "loop"
    /\ batchStart < Len(filesToProcess)
    /\ LET last  == IF batchStart + batchSize < Len(filesToProcess)
                    THEN batchStart + batchSize ELSE Len(filesToProcess)
           batch == SubSeq(filesToProcess, batchStart + 1, last)
           started == startOps(batch, processedFiles)
       IN  /\ ops' = started
           /\ processedFiles' = processedFiles \cup Range(batch)
           /\ passCount' = [p \in AllPaths |->
                 passCount[p] + Cardinality({k \in 1..Len(started) :
                                    started[k].path = p /\ started[k].passed})]
    /\ pc' = "batch"
    /\ UNCHANGED <<raised, policyVars, toolVars, viewVars, cancelled, written, stats, runs, docType, fileStructure, filesToProcess,
                   batchStart, fileContents, processed, progress, error, payloads, errored>>

\* the stat of operation k of the batch completes
FileStat(k) ==
    /\ pc = "batch"
    /\ k \in 1..Len(ops)
    /\ ops[k].st = "stat"
    /\ LET filePath == ops[k].path IN
       IF statThrows(filePath)
       THEN \* caught by processFile, which returns null
            /\ ops' = [ops EXCEPT ![k].st = "null"]
            /\ errored' = errored \cup {filePath}
            /\ UNCHANGED stats
       ELSE /\ stats' = onProgress(stats, filePath, files[filePath].size)
            /\ ops' = [ops EXCEPT ![k].st =
                          IF tooLarge(filePath, getMaxFileSizeForPath(filePath))
                          THEN "null" ELSE "read"]
            /\ UNCHANGED errored
    /\ UNCHANGED <<policyVars, toolVars, viewVars, cancelled, written, processedFiles, pc, runs, docType, fileStructure,
                   filesToProcess, batchStart, fileContents, processed, progress, error,
                   payloads, raised, passCount>>

\* the read of operation k of the batch completes
FileReadUncaught(k) ==
    /\ pc = "batch"
    /\ k \in 1..Len(ops)
    /\ ops[k].st = "read"
    /\ LET filePath == ops[k].path IN
       IF readThrows(filePath)
       THEN /\ ops' = [ops EXCEPT ![k].st = "null"]
            /\ errored' = errored \cup {filePath}
            /\ pc' = "rejected"
            /\ error' = "EACCES"
            /\ UNCHANGED stats
       ELSE IF gated(filePath, config.skipBinaryFiles, config.skipGeneratedFiles)
            THEN /\ ops' = [ops EXCEPT ![k].st = "null"]
                 /\ UNCHANGED <<stats, errored, pc, error>>
            ELSE /\ ops' = [ops EXCEPT ![k].st = "record"]
                 /\ stats' = onResult(stats, files[filePath].size, files[filePath].chars)
                 /\ UNCHANGED <<errored, pc, error>>
    /\ UNCHANGED <<policyVars, toolVars, viewVars, cancelled, written, processedFiles, runs, docType, fileStructure,
                   filesToProcess, batchStart, fileContents, processed, progress,
                   payloads, raised, passCount>>

FileRead(k) ==
    /\ pc = "batch"
    /\ k \in 1..Len(ops)
    /\ ops[k].st = "read"
    /\ LET filePath == ops[k].path IN
       IF readThrows(filePath)
       THEN \* caught by processFile, which returns null
            /\ ops' = [ops EXCEPT ![k].st = "null"]
            /\ errored' = errored \cup {filePath}
            /\ UNCHANGED stats
       ELSE IF gated(filePath, config.skipBinaryFiles, config.skipGeneratedFiles)
            THEN /\ ops' = [ops EXCEPT ![k].st = "null"]
                 /\ UNCHANGED <<stats, errored>>
            ELSE /\ ops' = [ops EXCEPT ![k].st = "record"]
                 /\ stats' = onResult(stats, files[filePath].size, files[filePath].chars)
                 /\ UNCHANGED errored
    /\ UNCHANGED <<policyVars, toolVars, viewVars, cancelled, written, processedFiles, pc, runs, docType, fileStructure,
                   filesToProcess, batchStart, fileContents, processed, progress, error,
                   payloads, raised, passCount>>

IsRecord(op) == op.st = "record"

RECURSIVE recordsOf(_)
\* batchResults.filter(result => result !== null), in batch order
recordsOf(batchOps) ==
    IF batchOps = <<>> THEN <<>>
    ELSE (IF IsRecord(Head(batchOps)) THEN <<FileRecord(Head(batchOps).path)>> ELSE <<>>)
            \o recordsOf(Tail(batchOps))

\* the percent computed before the batch is counted
EndBatchPercentBeforeCount ==
    /\ pc = "batch"
    /\ \A k \in 1..Len(ops) : ops[k].st \in {"null", "record"}
    /\ fileContents' = fileContents \o recordsOf(ops)
    /\ processed' = processed + Len(ops)
    /\ reportProgress(30 + ((processed * 50) \div Len(filesToProcess)))
    /\ batchStart' = batchStart + batchSize
    /\ ops' = <<>>
    /\ pc' = "loop"
    /\ UNCHANGED <<policyVars, toolVars, viewVars, cancelled, written, processedFiles, stats, runs, docType, fileStructure,
                   filesToProcess, error, payloads, raised, passCount, errored>>

\* every operation of the batch has completed: the records are collected
\* and the progress is reported, Math.floor(30 + (processed / totalFiles) * 50)
EndBatch ==
    /\ pc = "batch"
    /\ \A k \in 1..Len(ops) : ops[k].st \in {"null", "record"}
    /\ fileContents' = fileContents \o recordsOf(ops)
    /\ processed' = processed + Len(ops)
    /\ reportProgress(30 + (((processed + Len(ops)) * 50) \div Len(filesToProcess)))
    /\ batchStart' = batchStart + batchSize
    /\ ops' = <<>>
    /\ pc' = "loop"
    /\ UNCHANGED <<policyVars, toolVars, viewVars, cancelled, written, processedFiles, stats, runs, docType, fileStructure,
                   filesToProcess, error, payloads, raised, passCount, errored>>

\* the batch loop ends
EndContent ==
    /\ pc = "loop"
    /\ batchStart >= Len(filesToProcess)
    /\ pc' = "finalize"
    /\ UNCHANGED <<policyVars, toolVars, viewVars, cancelled, written, processedFiles, stats, runs, docType, fileStructure,
                   filesToProcess, batchStart, ops, fileContents, processed, progress,
                   error, payloads, raised, passCount, errored>>

\* the outputData built from the statistics and the results of the run
outputData ==
    [documentation_type |-> docType,
     total_files |-> stats.totalFiles,
     documented_files |-> stats.totalDocumentedFiles,
     total_size |-> stats.totalSize,
     documented_size |-> stats.documentedSize,
     total_token_count |-> stats.totalTokenCount,
     file_structure |-> fileStructure,
     files |-> fileContents,
     file_types |-> stats.fileTypes,
     largest_file |-> stats.largestFile]

\* the final statistics are computed, 90 is reported, outputData is built
Finalize ==
    /\ pc = "finalize"
    /\ reportProgress(90)
    /\ payloads' = Append(payloads, outputData)
    /\ pc' = "mkdir"
    /\ UNCHANGED <<raised, policyVars, toolVars, viewVars, cancelled, written, processedFiles, stats, runs, docType, fileStructure,
                   filesToProcess, batchStart, ops, fileContents, processed, error,
                   passCount, errored>>

\* the output directory is there, or is created, or cannot be created, in
\* which case the call rejects with the error of mkdir
EnsureOutputDir(outcome) ==
    /\ pc = "mkdir"
    /\ IF outcome = "EACCES"
       THEN pc' = "rejected" /\ error' = "EACCES" /\ raised' = "EACCES"
       ELSE pc' = "write" /\ UNCHANGED <<error, raised>>
    /\ UNCHANGED <<policyVars, toolVars, viewVars, cancelled, written, processedFiles, stats, runs, docType, fileStructure,
                   filesToProcess, batchStart, ops, fileContents, processed, progress,
                   payloads, passCount, errored>>

WriteOutputSwallowed(outcome, format) ==
    /\ pc = "write"
    /\ pc' = "done"
    /\ reportProgress(100)
    /\ raised' = IF outcome = "ENOSPC" THEN "ENOSPC" ELSE ""
    /\ written' = IF outcome = "ENOSPC" THEN <<>> ELSE <<serialize(format, fileStructure)>>
    /\ UNCHANGED error
    /\ UNCHANGED <<policyVars, toolVars, viewVars, cancelled, processedFiles, stats, runs, docType, fileStructure,
                   filesToProcess, batchStart, ops, fileContents, processed,
                   payloads, passCount, errored>>

\* the output is written in the format the call resolved at its start
\* (outputFormat, else the configured one; nothing before the write depends
\* on it); a failure is logged and thrown again, a success is followed by
\* the report of 100
WriteOutput(outcome, format) ==
    /\ pc = "write"
    /\ IF outcome = "ENOSPC"
       THEN pc' = "rejected" /\ error' = "ENOSPC" /\ raised' = "ENOSPC"
            /\ UNCHANGED <<progress, written>>
       ELSE pc' = "done" /\ reportProgress(100) /\ UNCHANGED <<error, raised>>
            /\ written' = <<serialize(format, fileStructure)>>
    /\ UNCHANGED <<policyVars, toolVars, viewVars, cancelled, processedFiles, stats, runs, docType, fileStructure,
                   filesToProcess, batchStart, ops, fileContents, processed,
                   payloads, passCount, errored>>

(***************************************************************************)
(* Runs of document() on one CodeCartographer.                             *)
(***************************************************************************)
RunConfigs ==
    {[include |-> <<PAll>>, exclude |-> <<PDist>>, hasCustomFiles |-> FALSE,
      customFiles |-> <<>>, maxFileSize |-> 5, skipBinaryFiles |-> TRUE,
      skipGeneratedFiles |-> TRUE, type |-> "both"],
     [include |-> <<PAll>>, exclude |-> <<>>, hasCustomFiles |-> FALSE,
      customFiles |-> <<>>, maxFileSize |-> 5, skipBinaryFiles |-> TRUE,
      skipGeneratedFiles |-> TRUE, type |-> "both"],
     [include |-> <<PTs, PDist>>, exclude |-> <<>>, hasCustomFiles |-> TRUE,
      customFiles |-> <<[name |-> "docs", include |-> <<PMd>>, maxSize |-> <<8>>]>>,
      maxFileSize |-> 5, skipBinaryFiles |-> TRUE, skipGeneratedFiles |-> TRUE,
      type |-> "both"]}

\* p, another path q, then p again up to the end of the first batch, then r:
\* a list that needs a second batch
Padded(p, q, r) ==
    [k \in 1..(batchSize + 1) |-> IF k = 2 THEN q ELSE IF k <= batchSize THEN p ELSE r]

\* the explicit selections: none (a full run), short lists, and lists longer
\* than one batch
ItemLists ==
    UNION {[1..n -> FilePaths] : n \in 0..MaxItems}
        \cup {l \in {Padded(p, q, r) : p, q, r \in FilePaths} : l[1] # l[2]}

\* the documentationType option of a call: absent, one of the two partial
\* types, or a string that names no type ("content" for "Content Only")
TypeOptions == {"", "structure", "documentation", "content"}

Init ==
    /\ config \in RunConfigs
    /\ files \in FileSystems
    /\ gitignoreRules \in {<<>>, <<PDist>>}
    /\ options \in [includeItems : ItemLists, documentationType : TypeOptions]
    /\ qPath = <<>>
    /\ qInclude = FALSE
    /\ qMaxSize = 0
    /\ InstanceInit
    /\ ToolsIdle

Next ==
    \/ StartRun
    \/ StructurePhase
    \/ ContentPhase
    \/ StartBatch
    \/ \E k \in 1..batchSize : FileStat(k)
    \/ \E k \in 1..batchSize : FileRead(k)
    \/ EndBatch
    \/ EndContent
    \/ Finalize
    \/ \E outcome \in {"exists", "created", "EACCES"} : EnsureOutputDir(outcome)
    \/ \E outcome \in {"written", "ENOSPC"}, format \in Formats : WriteOutput(outcome, format)

Spec == Init /\ [][Next]_vars

(***************************************************************************)
(* Properties of runs of document().                                      *)
(***************************************************************************)
\* parseGitignore(<root>/.gitignore)(filePath): some rule of the ignore file
\* matches the path relative to the directory of the ignore file
gitignoreMatcher(filePath) == isMatch(relativePath(filePath), gitignoreRules)

FullRun == options.includeItems = <<>>
\* the content phase of the current run is over
ContentOver == pc \in {"finalize", "mkdir", "write", "done"} \/ (pc = "rejected" /\ raised # "")
\* the File Records of a list whose path is that of filePath
RecordsFor(list, filePath) ==
    {k \in 1..Len(list) : list[k].path = relativePath(filePath)}
Occurrences(list, p) == {k \in 1..Len(list) : list[k] = p}
\* a file every gate lets through: it is documented when it is processed
Documentable(p) ==
    /\ shouldIncludeFile(p)
    /\ files[p].kind \in {"text", "binary", "generated"}
    /\ ~tooLarge(p, getMaxFileSizeForPath(p))
    /\ ~gated(p, config.skipBinaryFiles, config.skipGeneratedFiles)

\* C5: in a full run, no path matched by a rule of the ignore file is in
\* the tree or in the file-record list of the payload.
C5_IgnoredPathsAbsent ==
    FullRun => \A i \in 1..Len(payloads) :
        /\ \A k \in 1..Len(payloads[i].files) :
              ~gitignoreMatcher(Abs(payloads[i].files[k].path))
        /\ \A t \in 1..Len(payloads[i].file_structure) :
              \A k \in 1..Len(payloads[i].file_structure[t]) :
                 ~gitignoreMatcher(Abs(payloads[i].file_structure[t][k].path))

\* C6: in every run, a path that occurs more than once in the candidate list
\* gets past the processed check exactly once and, when its file is one the
\* gates let through, yields exactly one File Record (never more than one).
C6_ExactlyOnePass ==
    ContentOver /\ wantsContent(docType) =>
        \A p \in FilePaths : Cardinality(Occurrences(filesToProcess, p)) > 1 =>
            /\ passCount[p] = 1
            /\ Cardinality(RecordsFor(fileContents, p)) <= 1
            /\ Documentable(p) => Cardinality(RecordsFor(fileContents, p)) = 1

\* the (path, size) pairs of the File Records of a payload
PathSizes(payload) ==
    {<<payload.files[k].path, payload.files[k].size>> : k \in 1..Len(payload.files)}

\* C7: two runs of type "documentation" over the same filesystem produce
\* file-record lists with the same (path, size) pairs.
C7_SecondRunSameRecords ==
    \A i, j \in 1..Len(payloads) :
        (payloads[i].documentation_type = "documentation"
            /\ payloads[j].documentation_type = "documentation")
        => PathSizes(payloads[i]) = PathSizes(payloads[j])

\* C8: document() rejects only when the final write (creating the output
\* directory, writing the output file) failed.
C8_OnlyFinalWriteRejects ==
    pc = "rejected" => (raised # "" /\ error = raised)

\* C9: when creating the output directory or writing the output file fails,
\* document() rejects with that error and 100 is never reported for the run.
C9_WriteFailureRejects ==
    raised # "" => (pc = "rejected" /\ error = raised /\ 100 \notin Range(progress))

C9_Witness == raised = "ENOSPC" /\ pc = "rejected" /\ 90 \in Range(progress)

\* C10: an error raised while a file is processed in the content phase costs
\* that file its record and nothing else: the batch can always go on, the
\* call is not rejected for it, every candidate is handed to processFile,
\* and every file that got past the processed check and that the gates let
\* through has its record.
C10_FileErrorIsLocal ==
    errored # {} =>
        /\ \A p \in errored : RecordsFor(fileContents, p) = {}
        /\ pc = "rejected" => raised # ""
        /\ pc = "batch" =>
              ENABLED (EndBatch \/ \E k \in 1..batchSize : FileStat(k) \/ FileRead(k))
        /\ ContentOver =>
              /\ processed = Len(filesToProcess)
              /\ \A p \in FilePaths :
                    (passCount[p] > 0 /\ Documentable(p)) =>
                        Cardinality(RecordsFor(fileContents, p)) = 1

C10_Witness ==
    /\ pc = "done" /\ errored # {}
    /\ Len(filesToProcess) > batchSize
    /\ \E a, b \in 1..Len(fileContents) :
          fileContents[a].path # fileContents[b].path

(***************************************************************************)
(* Enumeration and quick analysis of a project.                            *)
(***************************************************************************)
Text(n) == [kind |-> "text", size |-> n, chars |-> n]

\* the projects walked: each directory can be listed or not, the root
\* included; the file in the root and the "constructor" directory may be absent
WalkFileSystems ==
    {(rootDir :> [DirEntry EXCEPT !.kind = r]) @@
     (Abs(SrcDir) :> [DirEntry EXCEPT !.kind = s]) @@
     (Abs(LibDir) :> [DirEntry EXCEPT !.kind = l]) @@
     (Abs(DistDir) :> [DirEntry EXCEPT !.kind = d]) @@
     (Abs(CtorDir) :> (IF c THEN DirEntry ELSE Missing)) @@
     (Abs(CtorX) :> (IF c THEN Text(1) ELSE Missing)) @@
     (Abs(Readme) :> (IF m THEN Text(3) ELSE Missing)) @@
     (Abs(SrcA) :> Text(2)) @@ (Abs(SrcB) :> Text(6)) @@ (Abs(DistJs) :> Text(4)) @@
     (Abs(LibC) :> Text(1)) @@ (Abs(LibD) :> Text(1)) :
        r \in {"dir", "baddir"}, s \in {"dir", "baddir"}, l \in {"dir", "baddir"},
        d \in {"dir", "baddir"}, c \in BOOLEAN, m \in BOOLEAN}

PLib == <<"src", "lib", "**">>

\* "src/**/*": what lies below src, at any depth
PSrcAll == <<"src", "**", "*">>

\* everything included and one subtree excluded or none, or no exclude and
\* an include list that names files only
WalkConfigs ==
    {[include |-> ie[1], exclude |-> ie[2], hasCustomFiles |-> FALSE,
      customFiles |-> <<>>, maxFileSize |-> 5, skipBinaryFiles |-> TRUE,
      skipGeneratedFiles |-> TRUE, type |-> "both"] :
        ie \in {<< <<PAll>>, <<>> >>, << <<PAll>>, <<PDist>> >>, << <<PAll>>, <<PLib>> >>,
                << <<PTs>>, <<>> >>, << <<PSrcAll>>, <<>> >>}}

InitWalk ==
    /\ config \in WalkConfigs
    /\ files \in WalkFileSystems
    /\ gitignoreRules = <<>>
    /\ options = NoOptions
    /\ qPath = <<>>
    /\ qInclude = FALSE
    /\ qMaxSize = 0
    /\ InstanceInit
    /\ ToolsIdle

\* a caller awaits getAllFiles(rootDir)
Enumerate ==
    /\ enumerated = <<>>
    /\ LET r == tryGetAllFiles(rootDir)
       IN  /\ enumerated' = <<r.files>>
           /\ enumRejected' = r.threw
    /\ UNCHANGED <<policyVars, runVars, viewVars, summary, selection, configFiles, settings,
                   csvNode, csvRow, gitignoreFile, qIgnored>>

\* the directories whose listing fails, and the ancestors of a path
Unlistable == {d \in WalkDirs : readdirThrows(d)}
Ancestors(p) == {SubSeq(p, 1, n) : n \in 1..(Len(p) - 1)}

\* the files an enumeration of the root owes: those that exist, below
\* directories that can all be listed and that the policy does not exclude
Owed ==
    {f \in WalkFiles :
        /\ isFile(f)
        /\ \A d \in Ancestors(f) :
              /\ d \notin Unlistable
              /\ d # rootDir => (files[d].kind # "missing" /\ shouldIncludeFile(d))}

\* C11: a directory whose listing fails contributes no entry and costs
\* nothing else: the enumeration of the root does not reject and returns,
\* each once, exactly the files below directories that could all be listed.
C11_FailedDirectoryIsLocal ==
    enumerated # <<>> =>
        /\ ~enumRejected
        /\ Range(enumerated[1]) = Owed
        /\ Len(enumerated[1]) = Cardinality(Owed)

C11_Witness ==
    /\ enumerated # <<>>
    /\ Abs(LibDir) \in Unlistable
    /\ Abs(DistDir) \in Unlistable
    /\ {Abs(SrcA), Abs(SrcB), Abs(Readme)} \subseteq Range(enumerated[1])
    /\ Abs(LibC) \notin Range(enumerated[1])

\* the properties every object inherits from Object.prototype: a lookup of
\* one of these names on an object that has no such property of its own
\* yields the inherited function
ObjectPrototypeNames ==
    {"constructor", "hasOwnProperty", "isPrototypeOf", "propertyIsEnumerable",
     "toLocaleString", "toString", "valueOf"}

Number(n) == [kind |-> "number", n |-> n]

\* (obj[key] || 0) + 1 on a histogram object created as {}: a number is
\* incremented; an inherited function is truthy, and adding 1 to it, or to
\* the string so obtained, appends the digit 1 to its text (n counts them)
increment(obj, key) ==
    LET held == IF key \in DOMAIN obj THEN obj[key]
                ELSE IF key \in ObjectPrototypeNames THEN [kind |-> "function", n |-> 0]
                ELSE Number(0)
    IN  IF held.kind = "number" THEN Number(held.n + 1)
        ELSE [kind |-> "string", n |-> held.n + 1]

\* String.prototype.toLowerCase of an extension
toLowerCase(ext) == IF ext = ".TS" THEN ".ts" ELSE ext

\* path.relative(rootDir, path.dirname(file)).split(path.sep)[0] || '.'
topDir(file) ==
    LET rel == relativePath(file)
    IN  IF Len(rel) <= 1 THEN "." ELSE rel[1]

RECURSIVE analyze(_, _)
\* the loop of quickAnalyze over the files still to count
analyze(st, allFiles) ==
    IF allFiles = <<>> THEN st
    ELSE LET file == Head(allFiles)
             ext  == toLowerCase(extname(file[Len(file)]))
             dir  == topDir(file)
         IN  analyze([st EXCEPT
                        !.file_types = (ext :> increment(st.file_types, ext)) @@ @,
                        !.directories = (dir :> increment(st.directories, dir)) @@ @],
                     Tail(allFiles))

quickAnalyze ==
    LET allFiles == getAllFiles(rootDir)
    IN  analyze([total_files |-> Len(allFiles), file_types |-> <<>>, directories |-> <<>>],
                allFiles)

\* a caller awaits CodeCartographer.quickAnalyze(rootDir)
QuickAnalyze ==
    /\ summary = <<>>
    /\ summary' = <<quickAnalyze>>
    /\ UNCHANGED <<policyVars, runVars, viewVars, enumerated, enumRejected, selection,
                   configFiles, settings, csvNode, csvRow, gitignoreFile, qIgnored>>

NextWalk == Enumerate \/ QuickAnalyze

SpecWalk == InitWalk /\ [][NextWalk]_vars

RECURSIVE SumOf(_)
\* the sum of the values of a histogram whose values are all numbers
SumOf(h) ==
    IF DOMAIN h = {} THEN 0
    ELSE LET k == CHOOSE x \in DOMAIN h : TRUE
         IN  h[k].n + SumOf([x \in DOMAIN h \ {k} |-> h[x]])

\* C16: in the summary of a quick analysis total_files is the number of
\* files enumerated, every bucket of both histograms holds the number of
\* enumerated files of that lower-cased extension, or of that top-level
\* directory ("." for files in the root), and each histogram sums to
\* total_files.
C16_SummaryConsistent ==
    summary # <<>> =>
        LET s == summary[1] IN
        /\ s.total_files = Cardinality(Owed)
        /\ \A e \in DOMAIN s.file_types :
              s.file_types[e] =
                 Number(Cardinality({f \in Owed : ExtName(f[Len(f)]) = e}))
        /\ \A d \in DOMAIN s.directories :
              s.directories[d] = Number(Cardinality({f \in Owed : topDir(f) = d}))
        /\ SumOf(s.file_types) = s.total_files
        /\ SumOf(s.directories) = s.total_files

\* C12: whatever documentation type a run resolves to, the Structure phase
\* (which reports 10) or the Content phase (which reports 30) has run by the
\* time Finalize begins.
C12_SomePhaseRuns ==
    ContentOver => (10 \in Range(progress) \/ 30 \in Range(progress))

(***************************************************************************)
(* Runs under a progress notification the user can cancel.                 *)
(***************************************************************************)
\* the user presses Cancel on the notification while document() is running:
\* the token handed to the task is cancelled
Cancel ==
    /\ pc \notin {"idle", "done", "rejected"}
    /\ ~cancelled
    /\ cancelled' = TRUE
    /\ UNCHANGED <<policyVars, toolVars, viewVars, processedFiles, stats, pc, runs, docType,
                   fileStructure, filesToProcess, batchStart, ops, fileContents,
                   processed, progress, error, raised, payloads, passCount, errored,
                   written>>

\* full runs and selections longer than one batch, without an ignore file
InitCancel ==
    /\ Init
    /\ gitignoreRules = <<>>
    /\ options.documentationType = ""
    /\ (FullRun \/ Len(options.includeItems) > batchSize)

NextCancel == Next \/ Cancel

SpecCancel == InitCancel /\ [][NextCancel]_vars

\* C13: once the caller has cancelled, the operations of the batch in flight
\* complete and no later batch is started.
C13_NoBatchAfterCancel ==
    [][cancelled => ~(pc = "loop" /\ pc' = "batch")]_vars

(***************************************************************************)
(* FileSelector: manual selection mode.                                    *)
(***************************************************************************)
\* the selections a generate message can carry: up to MaxItems files of the
\* project, by their paths relative to the root
Selections ==
    [items : UNION {[1..n -> {SrcA, SrcB, DistJs}] : n \in 0..MaxItems},
     honorGitignore : BOOLEAN, honorConfigFile : BOOLEAN, sent : {FALSE}]

InitManual ==
    /\ config \in RunConfigs
    /\ files \in FileSystems
    /\ gitignoreRules \in {<<>>, <<PDist>>}
    /\ options = NoOptions
    /\ qPath = <<>>
    /\ qInclude = FALSE
    /\ qMaxSize = 0
    /\ InstanceInit
    /\ enumerated = <<>>
    /\ enumRejected = FALSE
    /\ summary = <<>>
    /\ selection \in Selections
    /\ configFiles = <<>>
    /\ settings = NoSettings
    /\ csvNode = <<>>
    /\ csvRow = <<>>
    /\ gitignoreFile = NoIgnoreFile
    /\ qIgnored = <<>>
    /\ ViewsIdle

\* FileSelector.generateDocumentation up to its call of document(): the
\* selection is made absolute and filtered as the two toggles ask; nothing
\* is called when nothing was selected or nothing remains
GenerateDocumentation ==
    /\ ~selection.sent
    /\ pc = "idle"
    /\ selection' = [selection EXCEPT !.sent = TRUE]
    /\ LET absolutePaths == [k \in 1..Len(selection.items) |-> Abs(selection.items[k])]
           NotIgnored(p) == ~gitignoreMatcher(p)
           afterIgnore == IF selection.honorGitignore
                          THEN SelectSeq(absolutePaths, NotIgnored) ELSE absolutePaths
           afterConfig == IF selection.honorConfigFile
                          THEN SelectSeq(afterIgnore, shouldIncludeFile) ELSE afterIgnore
       IN  options' = IF afterConfig = <<>> THEN options
                      ELSE [includeItems |-> afterConfig, documentationType |-> "both"]
    /\ UNCHANGED <<config, files, gitignoreRules, qPath, qInclude, qMaxSize, runVars, viewVars,
                   enumerated, enumRejected, summary, configFiles, settings, csvNode,
                   csvRow, gitignoreFile, qIgnored>>

\* document() runs on the selector's CodeCartographer once it was called
NextManual ==
    \/ GenerateDocumentation
    \/ (selection.sent /\ options.includeItems # <<>> /\ Next)

SpecManual == InitManual /\ [][NextManual]_vars

\* the selected files a toggle that is on filters out
DroppedByToggle(p) ==
    \/ (selection.honorGitignore /\ gitignoreMatcher(p))
    \/ (selection.honorConfigFile /\ ~shouldIncludeFile(p))

\* C14: in manual selection mode every selected existing file that no
\* switched-on toggle filters out has its node in the generated tree and is
\* in the candidate list of the content phase, whether or not the include
\* and exclude patterns or an ignore rule reject it.
C14_ManualBypass ==
    \A k \in 1..Len(selection.items) :
        LET p == Abs(selection.items[k]) IN
        (selection.sent /\ isFile(p) /\ ~DroppedByToggle(p)) =>
            /\ fileStructure # <<>> => HasNode(fileStructure[1], relativePath(p))
            /\ (pc \in {"loop", "batch"} \/ ContentOver) => p \in Range(filesToProcess)

(***************************************************************************)
(* ConfigProcessor: loading the configuration.                             *)
(***************************************************************************)
PNodeModules == <<"node_modules", "**">>
PGit         == <<".git", "**">>
POut         == <<"out", "**">>
PMinJs       == <<"**", "*.min.js">>
PMap         == <<"**", "*.map">>

\* ConfigProcessor.defaultConfig, for the fields the model follows
defaultConfig ==
    [include |-> <<PAll>>,
     exclude |-> <<PNodeModules, PGit, PDist, POut, PMinJs, PMap>>,
     maxFileSize |-> 500000,
     documentation |-> [type |-> "both", format |-> "json"]]

\* the defaults package.json contributes for the settings: what get() yields
\* for a setting the user has not set
contributedDefaults ==
    [outputFormat |-> "json", documentationType |-> "both",
     ignorePatterns |-> << <<"node_modules">>, <<".git">>, <<"out">>, <<"dist">> >>]

\* vsCodeConfig.get(key)
get(key) == IF settings[key] = <<>> THEN contributedDefaults[key] ELSE settings[key][1]

\* a parsed configuration file: each field is there (<<value>>) or not (<<>>)
EmptyObject == [include |-> <<>>, exclude |-> <<>>, maxFileSize |-> <<>>, documentation |-> <<>>]
NoDocumentation == [type |-> <<>>, format |-> <<>>]

ParsedConfigs ==
    {EmptyObject,
     [EmptyObject EXCEPT !.include = << <<PSrc>> >>],
     [EmptyObject EXCEPT !.exclude = << <<PMd>> >>,
                         !.documentation = <<[NoDocumentation EXCEPT !.format = <<"txt">>]>>],
     [EmptyObject EXCEPT !.maxFileSize = <<5>>,
                         !.documentation = <<[NoDocumentation EXCEPT !.type = <<"documentation">>]>>]}

\* what is found at one configuration location
Locations ==
    {[state |-> "absent", value |-> EmptyObject], [state |-> "malformed", value |-> EmptyObject]}
        \cup [state : {"parsed"}, value : ParsedConfigs]

HostSettings ==
    [outputFormat : {<<>>, <<"">>, <<"csv">>}, documentationType : {<<>>, <<"structure">>},
     ignorePatterns : {<<>>, << <<>> >>, << <<PMd>> >>}]

\* { ...a, ...b } for one field: the value of b when b has the field
Spread(a, b) == IF b = <<>> THEN a ELSE b[1]

\* mergeWithDefaultConfig(userConfig)
mergeWithDefaultConfig(userConfig) ==
    LET doc == Spread(NoDocumentation, userConfig.documentation)
    IN  [include |-> Spread(defaultConfig.include, userConfig.include),
         exclude |-> Spread(defaultConfig.exclude, userConfig.exclude),
         maxFileSize |-> Spread(defaultConfig.maxFileSize, userConfig.maxFileSize),
         documentation |->
            [type |-> Spread(defaultConfig.documentation.type, doc.type),
             format |-> Spread(defaultConfig.documentation.format, doc.format)]]

\* a || b on strings: the empty string is falsy
OrElse(a, b) == IF a = "" THEN b ELSE a

\* mergeWithVsCodeSettings(config): every setting is contributed by
\* package.json, so has() holds for each
mergeWithVsCodeSettings(cfg) ==
    [cfg EXCEPT !.documentation.format = OrElse(get("outputFormat"), @),
                !.documentation.type = OrElse(get("documentationType"), @),
                !.exclude = @ \o get("ignorePatterns")]

\* the configuration files that load: there and parsed without error
Loads(i) == configFiles[i].state = "parsed"

\* the three-level merge: the settings are applied under the file as well
loadConfigSettingsUnderFile ==
    IF \E i \in 1..Len(configFiles) : Loads(i)
    THEN LET i == CHOOSE i \in 1..Len(configFiles) :
                     Loads(i) /\ \A j \in 1..(i - 1) : ~Loads(j)
             user == configFiles[i].value
             host == mergeWithVsCodeSettings(defaultConfig)
             doc  == Spread(NoDocumentation, user.documentation)
         IN  [include |-> Spread(host.include, user.include),
              exclude |-> Spread(host.exclude, user.exclude),
              maxFileSize |-> Spread(host.maxFileSize, user.maxFileSize),
              documentation |->
                 [type |-> Spread(host.documentation.type, doc.type),
                  format |-> Spread(host.documentation.format, doc.format)]]
    ELSE mergeWithVsCodeSettings(defaultConfig)

\* loadConfig(): the first location that is there and parses is merged over
\* the defaults and returned; with none, the settings are merged into the
\* defaults
loadConfig ==
    IF \E i \in 1..Len(configFiles) : Loads(i)
    THEN LET i == CHOOSE i \in 1..Len(configFiles) :
                     Loads(i) /\ \A j \in 1..(i - 1) : ~Loads(j)
         IN  mergeWithDefaultConfig(configFiles[i].value)
    ELSE mergeWithVsCodeSettings(defaultConfig)

InitConfig ==
    /\ config = <<>>
    /\ files = [p \in AllPaths |-> Missing]
    /\ gitignoreRules = <<>>
    /\ options = NoOptions
    /\ qPath = <<>>
    /\ qInclude = FALSE
    /\ qMaxSize = 0
    /\ InstanceInit
    /\ enumerated = <<>>
    /\ enumRejected = FALSE
    /\ summary = <<>>
    /\ selection = NoSelection
    /\ configFiles \in [1..3 -> Locations]
    /\ settings \in HostSettings
    /\ csvNode = <<>>
    /\ csvRow = <<>>
    /\ gitignoreFile = NoIgnoreFile
    /\ qIgnored = <<>>
    /\ ViewsIdle

\* new ConfigProcessor(rootPath): config is <<the loaded configuration>>
Construct ==
    /\ config = <<>>
    /\ config' = <<loadConfig>>
    /\ UNCHANGED <<files, gitignoreRules, options, qPath, qInclude, qMaxSize, runVars,
                   toolVars, viewVars>>

NextConfig == Construct

SpecConfig == InitConfig /\ [][NextConfig]_vars

\* the file that loaded, if any, and what it defines
FileLoaded == \E i \in 1..3 : Loads(i)
TheFile == configFiles[CHOOSE i \in 1..3 : Loads(i) /\ \A j \in 1..(i - 1) : ~Loads(j)].value
TheFileDoc == IF TheFile.documentation = <<>> THEN NoDocumentation
              ELSE TheFile.documentation[1]

\* file over host setting over default, for one field
ThreeLevel(fileValue, hostValue, default) ==
    IF FileLoaded /\ fileValue # <<>> THEN fileValue[1]
    ELSE IF hostValue # <<>> THEN hostValue[1] ELSE default

TwoLevel(fileValue, default) == IF fileValue # <<>> THEN fileValue[1] ELSE default

CeilQuarter(n) == IF n % 4 = 0 THEN n \div 4 ELSE (n \div 4) + 1

RECURSIVE TokensOf(_)
\* the sum over a list of File Records of the estimates of their contents
TokensOf(records) ==
    IF records = <<>> THEN 0
    ELSE CeilQuarter(Head(records).chars) + TokensOf(Tail(records))

\* C17: the token estimate of every payload is the sum, over the File
\* Records of that payload, of the content length divided by 4 and rounded up.
C17_TokenEstimateIsSum ==
    \A i \in 1..Len(payloads) :
        payloads[i].total_token_count = TokensOf(payloads[i].files)

(***************************************************************************)
(* The CSV writer.  A string is the sequence of its pieces: the comma, the *)
(* double quote, the newline, the dot and the slash are pieces of their    *)
(* own, any other piece is a run of ordinary characters.                   *)
(***************************************************************************)
Comma   == ","
Quote   == "\""
Newline == "\n"

\* value.includes(',') || value.includes('"') || value.includes('\n')
NeedsQuoting(value) ==
    \E k \in 1..Len(value) : value[k] \in {Comma, Quote, Newline}

RECURSIVE DoubleQuotes(_)
\* value.replace(/"/g, '""')
DoubleQuotes(value) ==
    IF value = <<>> THEN <<>>
    ELSE (IF Head(value) = Quote THEN <<Quote, Quote>> ELSE <<Head(value)>>)
            \o DoubleQuotes(Tail(value))

\* escapeCSV(value)
escapeCSV(value) ==
    IF value = <<>> THEN <<>>
    ELSE IF NeedsQuoting(value) THEN <<Quote>> \o DoubleQuotes(value) \o <<Quote>>
    ELSE value

\* toLowerCase on the pieces of the model
LowerCase(value) == [k \in 1..Len(value) |-> IF value[k] = "MD" THEN "md" ELSE value[k]]

\* path.extname(name): from the last dot on, unless there is none or the
\* only one leads the name
extnameOf(name) ==
    LET dots == {k \in 2..Len(name) : name[k] = "."}
    IN  IF dots = {} THEN <<>>
        ELSE SubSeq(name, CHOOSE k \in dots : \A j \in dots : j <= k, Len(name))

\* String(size) for the sizes of the model
SizeText(size) == IF size = 0 THEN <<"0">> ELSE <<"12">>

\* the names, parent paths and project paths rows are written for
CsvNames ==
    {<<"a", Comma, "b", Quote, ".", "ts">>, <<"x", ".", "a", Comma, "b">>,
     <<"notes", ".", "MD">>, <<"two", Newline, "lines">>, <<"Makefile">>}
CsvPaths == {<<"proj">>, <<"my", Comma, "proj">>}

\* a node of the tree as addPathToStructure makes it (a file has a size and
\* the lower-cased extension of its name) with the path of its parent, and
\* the project path of the payload
CsvNodes ==
    {[type |-> t, name |-> n, size |-> z, parentPath |-> pp, projectPath |-> pr,
      extension |-> IF t = "file" THEN LowerCase(extnameOf(n)) ELSE <<>>] :
        t \in {"file", "directory"}, n \in CsvNames, z \in {<<>>, <<0>>, <<12>>},
        pp \in CsvPaths \cup {<<>>}, pr \in CsvPaths}

\* the nodes that can be: a file has a size, a directory has none
TreeNodes == {n \in CsvNodes : (n.type = "file") <=> (n.size # <<>>)}

\* parentPath ? `${parentPath}/${structure.name}` : structure.name
currentPath(node) ==
    IF node.parentPath = <<>> THEN node.name ELSE node.parentPath \o <<"/">> \o node.name

\* formatStructureAsCsv(structure, parentPath): the fields of the row
formatStructureAsCsv(node) ==
    << <<node.type>>, escapeCSV(node.name), escapeCSV(currentPath(node)),
       IF node.size = <<>> \/ node.size = <<0>> THEN <<>> ELSE SizeText(node.size[1]),
       node.extension >>

\* writeCsvOutput: the project_path row, the row of the node, and the row
\* of the file-type histogram the node gives rise to
writeCsvOutput(node) ==
    << << <<"project_path">>, node.projectPath >>,
       formatStructureAsCsv(node) >>
    \o (IF node.type = "file"
        THEN << << IF node.extension = <<>> THEN <<"no_extension">> ELSE node.extension,
                   <<"1">> >> >>
        ELSE <<>>)

InitCsv ==
    /\ config = defaultConfig
    /\ files = [p \in AllPaths |-> Missing]
    /\ gitignoreRules = <<>>
    /\ options = NoOptions
    /\ qPath = <<>>
    /\ qInclude = FALSE
    /\ qMaxSize = 0
    /\ InstanceInit
    /\ enumerated = <<>>
    /\ enumRejected = FALSE
    /\ summary = <<>>
    /\ selection = NoSelection
    /\ configFiles = <<>>
    /\ settings = NoSettings
    /\ csvNode \in {<<n>> : n \in TreeNodes}
    /\ csvRow = <<>>
    /\ gitignoreFile = NoIgnoreFile
    /\ qIgnored = <<>>
    /\ ViewsIdle

\* the CSV output is written
WriteCsv ==
    /\ csvRow = <<>>
    /\ csvRow' = writeCsvOutput(csvNode[1])
    /\ UNCHANGED <<policyVars, runVars, viewVars, enumerated, enumRejected, summary, selection,
                   configFiles, settings, csvNode, gitignoreFile, qIgnored>>

NextCsv == WriteCsv

SpecCsv == InitCsv /\ [][NextCsv]_vars

\* a field as CSV wants it written
Escaped(value) ==
    IF NeedsQuoting(value) THEN <<Quote>> \o DoubleQuotes(value) \o <<Quote>> ELSE value

\* the values of the fields of the rows written for a node
FieldValues(node) ==
    << << <<"project_path">>, node.projectPath >>,
       << <<node.type>>, node.name, currentPath(node),
          IF node.size = <<>> THEN <<>> ELSE SizeText(node.size[1]), node.extension >> >>
    \o (IF node.type = "file"
        THEN << << IF node.extension = <<>> THEN <<"no_extension">> ELSE node.extension,
                   <<"1">> >> >>
        ELSE <<>>)

\* C18: every field of the CSV output whose value holds a comma, a double
\* quote or a newline is written between double quotes with its quotes
\* doubled, and every other field is written unchanged.
C18_EveryFieldEscaped ==
    csvRow # <<>> =>
        LET values == FieldValues(csvNode[1]) IN
        /\ Len(csvRow) = Len(values)
        /\ \A r \in 1..Len(values) : \A f \in 1..Len(values[r]) :
              csvRow[r][f] = Escaped(values[r][f])

\* the place of a name among the names of the model in case-sensitive
\* lexicographic order: capitals before small letters, the dot before both
CodeUnitRank(name) ==
    CASE name = "D.TS"        -> 1
      [] name = "README.md"   -> 2
      [] name = "a.ts"        -> 3
      [] name = "b.md"        -> 4
      [] name = "bundle.js"   -> 5
      [] name = "c.ts"        -> 6
      [] name = "constructor" -> 7
      [] name = "dist"        -> 8
      [] name = "lib"         -> 9
      [] name = "src"         -> 10
      [] OTHER                -> 11

Siblings(a, b) == SubSeq(a.path, 1, Len(a.path) - 1) = SubSeq(b.path, 1, Len(b.path) - 1)

\* C19: in the output of every format the children of each directory are
\* written directories first, then files, each group in case-sensitive
\* lexicographic order of the names.
C19_SiblingsInOrder ==
    written # <<>> =>
        LET nodes == written[1].nodes IN
        \A i, j \in 1..Len(nodes) :
            (i < j /\ Siblings(nodes[i], nodes[j])) =>
                IF nodes[i].type # nodes[j].type THEN nodes[i].type = "directory"
                ELSE CodeUnitRank(nodes[i].name) < CodeUnitRank(nodes[j].name)

(***************************************************************************)
(* parseGitignore.  The content of the ignore file is the sequence of its  *)
(* pieces: the newline, the carriage return, the blank and the hash are    *)
(* pieces of their own, any other piece is the text of a glob pattern.     *)
(***************************************************************************)
RECURSIVE split(_)
\* content.split('\n'): the lines between the newlines, at least one
split(content) ==
    IF \A k \in 1..Len(content) : content[k] # Newline THEN <<content>>
    ELSE LET n == CHOOSE k \in 1..Len(content) :
                     content[k] = Newline /\ \A j \in 1..(k - 1) : content[j] # Newline
         IN  <<SubSeq(content, 1, n - 1)>> \o split(SubSeq(content, n + 1, Len(content)))

IsSpace(c) == c \in {" ", "\r"}

RECURSIVE trimStart(_)
trimStart(line) ==
    IF line # <<>> /\ IsSpace(Head(line)) THEN trimStart(Tail(line)) ELSE line

RECURSIVE trimEnd(_)
trimEnd(line) ==
    IF line # <<>> /\ IsSpace(line[Len(line)])
    THEN trimEnd(SubSeq(line, 1, Len(line) - 1)) ELSE line

\* String.prototype.trim
trim(line) == trimEnd(trimStart(line))

\* line.trim() && !line.startsWith('#')
isRuleLine(line) == trim(line) # <<>> /\ ~(line # <<>> /\ Head(line) = "#")

\* the glob a rule text stands for
patternOf(text) ==
    CASE text = <<"dist/**">>      -> PDist
      [] text = <<"**/*.md">>      -> PMd
      [] text = <<"#", "dist/**">> -> <<"#dist", "**">>
      [] OTHER                     -> <<"?">>

\* the rules parseGitignore keeps from the content of the file
rulesOf(content) ==
    LET kept == SelectSeq(split(content), isRuleLine)
    IN  [k \in 1..Len(kept) |-> patternOf(trim(kept[k]))]

\* parseGitignore without its guards: a file that is not there or cannot be
\* read makes readFileSync throw
parseGitignoreUnguarded(file, filePath) ==
    IF file.state # "present" THEN [ignored |-> FALSE, threw |-> TRUE]
    ELSE [ignored |-> isMatch(relativePath(filePath), rulesOf(file.content)),
          threw |-> FALSE]

\* parseGitignore(gitignorePath)(filePath): what the returned predicate
\* answers, and whether making or calling it raised an error
parseGitignore(file, filePath) ==
    IF file.state = "absent" THEN [ignored |-> FALSE, threw |-> FALSE]
    ELSE IF file.state = "unreadable"
         \* readFileSync throws inside the try block: the catch block returns
         \* the constant-false predicate
         THEN [ignored |-> FALSE, threw |-> FALSE]
         ELSE [ignored |-> isMatch(relativePath(filePath), rulesOf(file.content)),
               threw |-> FALSE]

\* the lines ignore files of the model are made of: blank lines, comment
\* lines (one a commented-out rule), rules, rules with blanks or a carriage
\* return around them, and a hash after a blank
IgnoreLines ==
    {<<>>, <<" ">>, <<"\r">>, <<"#", "dist/**">>, <<"dist/**">>, <<" ", "**/*.md", " ">>,
     <<"dist/**", "\r">>, <<" ", "#", "dist/**">>}

RECURSIVE join(_)
\* lines.join('\n')
join(lines) ==
    IF lines = <<>> THEN <<>>
    ELSE IF Len(lines) = 1 THEN lines[1]
    ELSE lines[1] \o <<Newline>> \o join(Tail(lines))

IgnoreFiles ==
    {[state |-> "absent", content |-> <<>>], [state |-> "unreadable", content |-> <<>>]}
        \cup {[state |-> "present", content |-> join(ls)] :
                 ls \in UNION {[1..n -> IgnoreLines] : n \in 0..MaxLines}}

InitIgnore ==
    /\ config = defaultConfig
    /\ files = [p \in AllPaths |-> Missing]
    /\ gitignoreRules = <<>>
    /\ options = NoOptions
    /\ qPath = <<>>
    /\ qInclude = FALSE
    /\ qMaxSize = 0
    /\ InstanceInit
    /\ enumerated = <<>>
    /\ enumRejected = FALSE
    /\ summary = <<>>
    /\ selection = NoSelection
    /\ configFiles = <<>>
    /\ settings = NoSettings
    /\ csvNode = <<>>
    /\ csvRow = <<>>
    /\ gitignoreFile \in IgnoreFiles
    /\ qIgnored = <<>>
    /\ ViewsIdle

\* a caller parses the ignore file and asks the predicate about one path
AskIgnored(p) ==
    /\ qPath' = p
    /\ qIgnored' = <<parseGitignore(gitignoreFile, p)>>
    /\ UNCHANGED <<config, files, gitignoreRules, options, qInclude, qMaxSize, runVars, viewVars,
                   enumerated, enumRejected, summary, selection, configFiles, settings,
                   csvNode, csvRow, gitignoreFile>>

NextIgnore == \E p \in AllPaths : AskIgnored(p)

SpecIgnore == InitIgnore /\ [][NextIgnore]_vars

\* the lines of the file that are neither blank nor comments
BlankLine(line) == \A k \in 1..Len(line) : IsSpace(line[k])
CommentLine(line) == line # <<>> /\ Head(line) = "#"
RuleLines ==
    {l \in Range(split(gitignoreFile.content)) : ~BlankLine(l) /\ ~CommentLine(l)}

\* the trailing and leading white space of a rule line is not part of it
Bare(line) == SelectSeq(line, LAMBDA c : ~IsSpace(c))

\* C20: the predicate parseGitignore returns never raises an error; it
\* answers false for every path when the ignore file is not there or cannot
\* be read; and for a file that is there it answers true exactly for the
\* paths some line that is neither blank nor a comment matches, so that
\* blank lines and comment lines contribute no rule.
C20_IgnoreFileRobust ==
    qIgnored # <<>> =>
        /\ ~qIgnored[1].threw
        /\ gitignoreFile.state # "present" => ~qIgnored[1].ignored
        /\ gitignoreFile.state = "present" =>
              (qIgnored[1].ignored <=>
                 \E l \in RuleLines :
                    GlobMatch(patternOf(Bare(l)), relativePath(qPath)))

C20_Witness ==
    /\ qIgnored # <<>>
    /\ gitignoreFile.state = "unreadable"
    /\ qPath = Abs(DistJs)
    /\ ~qIgnored[1].ignored

(***************************************************************************)
(* The tree and the File Records of one run.                               *)
(***************************************************************************)
\* the tree has a file node at a relative path
HasFileNode(tree, rel) ==
    \E k \in 1..Len(tree) : tree[k].path = rel /\ tree[k].type = "file"

\* a file a content gate keeps out of the File Records: larger than its
\* effective maximum size, binary or generated
ContentGated(p) ==
    /\ isFile(p)
    /\ \/ tooLarge(p, getMaxFileSizeForPath(p))
       \/ gated(p, config.skipBinaryFiles, config.skipGeneratedFiles)

\* C21: in a run of type "both", every candidate file that the policy
\* includes and that a content gate keeps out of the records has a file node
\* in the tree, and the path of every File Record is that of a file node of
\* the tree.
C21_GatedFilesKeepNodes ==
    (docType = "both" /\ fileStructure # <<>>) =>
        /\ \A p \in Range(filesToProcess) :
              (shouldIncludeFile(p) /\ ContentGated(p)) =>
                  HasFileNode(fileStructure[1], relativePath(p))
        /\ \A k \in 1..Len(fileContents) :
              HasFileNode(fileStructure[1], fileContents[k].path)

\* a finished "both" run with a record, and with a gated file that has its
\* node and no record
C21_Witness ==
    /\ docType = "both" /\ pc = "done" /\ fileStructure # <<>>
    /\ fileContents # <<>>
    /\ \E p \in Range(filesToProcess) :
          /\ shouldIncludeFile(p) /\ ContentGated(p)
          /\ HasFileNode(fileStructure[1], relativePath(p))
          /\ RecordsFor(fileContents, p) = {}

(***************************************************************************)
(* What the enumeration prunes.                                            *)
(***************************************************************************)
\* a file that is there, below directories that are there and can be listed
Reachable(f) ==
    /\ isFile(f)
    /\ \A d \in Ancestors(f) :
          d \notin Unlistable /\ (d # rootDir => files[d].kind # "missing")

\* the own path of a directory is matched by an exclude pattern
ExcludedDir(d) == isMatch(relativePath(d), config.exclude)

\* C22: the enumeration of the root returns every file that is there, that
\* shouldIncludeFile accepts and that has no ancestor directory matched by an
\* exclude pattern.
C22_OnlyExcludedSubtreesPruned ==
    enumerated # <<>> =>
        \A f \in WalkFiles :
            (/\ Reachable(f)
             /\ shouldIncludeFile(f)
             /\ \A d \in Ancestors(f) \ {rootDir} : ~ExcludedDir(d))
                => f \in Range(enumerated[1])

(***************************************************************************)
(* Full runs over the larger project, with the enumeration and the quick   *)
(* analysis of the same project.                                           *)
(***************************************************************************)
\* "src/lib": the directory itself and nothing below it
PLibOnly == <<"src", "lib">>

\* everything is included; nothing is excluded, or dist and what is below
\* it, or the directory src/lib alone, with and without an override that
\* names the files below it
FullConfigs ==
    {[include |-> <<PAll>>, exclude |-> ec[1], hasCustomFiles |-> ec[2] # <<>>,
      customFiles |-> ec[2], maxFileSize |-> 5, skipBinaryFiles |-> TRUE,
      skipGeneratedFiles |-> TRUE, type |-> "both"] :
        ec \in {<< <<>>, <<>> >>, << <<PDist>>, <<>> >>, << <<PLibOnly>>, <<>> >>,
                << <<PLibOnly>>,
                   <<[name |-> "lib", include |-> <<PLib>>, maxSize |-> <<8>>]>> >>}}

\* the projects without a "constructor" directory whose directories can
\* all be listed
FullFileSystems ==
    {fs \in WalkFileSystems :
        /\ fs[Abs(CtorDir)].kind = "missing"
        /\ \A d \in WalkDirs \ {Abs(CtorDir)} : fs[d].kind = "dir"}

InitFull ==
    /\ config \in FullConfigs
    /\ files \in FullFileSystems
    /\ gitignoreRules = <<>>
    /\ options \in [includeItems : {<<>>}, documentationType : {"", "documentation"}]
    /\ qPath = <<>>
    /\ qInclude = FALSE
    /\ qMaxSize = 0
    /\ InstanceInit
    /\ ToolsIdle

NextFull == Next \/ Enumerate \/ QuickAnalyze

SpecFull == InitFull /\ [][NextFull]_vars

\* the files below a directory whose own path an exclude pattern matches
Pruned(f) == \E d \in Ancestors(f) \ {rootDir} : ExcludedDir(d)
Unpruned == {f \in WalkFiles : isFile(f) /\ ~Pruned(f)}

\* C23: a file below a directory whose own path is matched by an exclude
\* pattern is not in the list getAllFiles returns, has no node in the tree
\* of a full run, is no candidate and gets no File Record, and the quick
\* analysis counts no more than the files that are below no such directory.
C23_ExcludedDirectoryNeverRead ==
    /\ \A f \in WalkFiles : Pruned(f) =>
          /\ enumerated # <<>> => f \notin Range(enumerated[1])
          /\ fileStructure # <<>> => ~HasNode(fileStructure[1], relativePath(f))
          /\ f \notin Range(filesToProcess)
          /\ RecordsFor(fileContents, f) = {}
    /\ summary # <<>> =>
          LET s == summary[1] IN
          /\ s.total_files <= Cardinality(Unpruned)
          /\ \A d \in DOMAIN s.directories :
                s.directories[d] = Number(Cardinality({f \in Unpruned : topDir(f) = d}))
          /\ \A e \in DOMAIN s.file_types :
                s.file_types[e] =
                   Number(Cardinality({f \in Unpruned : ExtName(f[Len(f)]) = e}))

\* src/lib alone is excluded, the policy accepts src/lib/c.ts, and a full
\* run, an enumeration and a quick analysis have all passed it by
C23_Witness ==
    /\ config.exclude = <<PLibOnly>>
    /\ isFile(Abs(LibC)) /\ shouldIncludeFile(Abs(LibC))
    /\ pc = "done" /\ docType = "both"
    /\ HasNode(fileStructure[1], SrcA)
    /\ RecordsFor(fileContents, Abs(SrcA)) # {}
    /\ ~HasNode(fileStructure[1], LibDir)
    /\ enumerated # <<>> /\ Abs(SrcA) \in Range(enumerated[1])
    /\ summary # <<>> /\ "src" \in DOMAIN summary[1].directories

(***************************************************************************)
(* Structure-only runs over explicit lists of paths: the tree that         *)
(* addPathToStructure builds.                                              *)
(***************************************************************************)
\* the paths a list is made of: files at three depths, and a directory
TreePaths == {Abs(Readme), Abs(SrcA), Abs(LibC), Abs(LibD), Abs(LibDir)}

\* the lists of at most MaxPaths paths, in any order, with repetitions
TreeItemLists == UNION {[1..n -> TreePaths] : n \in 1..MaxPaths}

InitTree ==
    /\ config \in {c \in FullConfigs : ~c.hasCustomFiles}
    /\ files \in FullFileSystems
    /\ gitignoreRules = <<>>
    /\ options \in [includeItems : TreeItemLists, documentationType : {"structure"}]
    /\ qPath = <<>>
    /\ qInclude = FALSE
    /\ qMaxSize = 0
    /\ InstanceInit
    /\ ToolsIdle

\* the steps of a run that has no content phase
NextTree ==
    \/ StartRun
    \/ StructurePhase
    \/ Finalize
    \/ \E outcome \in {"exists", "created", "EACCES"} : EnsureOutputDir(outcome)
    \/ \E outcome \in {"written", "ENOSPC"}, format \in Formats : WriteOutput(outcome, format)

SpecTree == InitTree /\ [][NextTree]_vars

\* the paths inserted: those of the list the policy accepts
Inserted == {p \in Range(options.includeItems) : shouldIncludeFile(p)}

\* the relative paths of the ancestor directories of a path, below the root
DirsAbove(p) == {SubSeq(relativePath(p), 1, n) : n \in 1..(Len(relativePath(p)) - 1)}

\* the paths the tree owes a node: the inserted paths and their ancestors
NodePaths == {relativePath(p) : p \in Inserted} \cup UNION {DirsAbove(p) : p \in Inserted}

\* C24: the tree built from a list of paths has exactly one node for each
\* inserted path and for each ancestor directory of one and no other node;
\* no two children of a node have the same name; the node of an inserted
\* file is a file node and a leaf, every other node is a directory node.
C24_OneNodePerPath ==
    (fileStructure # <<>> /\ ~FullRun) =>
        LET tree == fileStructure[1] IN
        /\ {tree[k].path : k \in 1..Len(tree)} = NodePaths
        /\ Len(tree) = Cardinality(NodePaths)
        /\ \A i, j \in 1..Len(tree) :
              (i # j /\ Siblings(tree[i], tree[j])) => tree[i].name # tree[j].name
        /\ \A k \in 1..Len(tree) :
              /\ tree[k].name = tree[k].path[Len(tree[k].path)]
              /\ tree[k].type = "file" <=> isFile(Abs(tree[k].path))
              /\ tree[k].type = "file" => children(tree, tree[k].path) = <<>>

\* a file is inserted twice around another one, and src/lib has its node
\* through its descendant alone although its own path is excluded
C24_Witness ==
    /\ fileStructure # <<>>
    /\ options.includeItems = <<Abs(LibC), Abs(Readme), Abs(LibC)>>
    /\ config.exclude = <<PLibOnly>>
    /\ Len(fileStructure[1]) = 4
    /\ HasNode(fileStructure[1], LibDir)
    /\ Len(children(fileStructure[1], SrcDir)) = 1

(***************************************************************************)
(* The batches of the content phase.                                       *)
(***************************************************************************)
\* the operations of the batch that have been started and have not completed
InFlight == {k \in 1..Len(ops) : ops[k].st \in {"stat", "read"}}

\* the candidates of the batch that starts at index i of the list
BatchAt(i) ==
    SubSeq(filesToProcess, i + 1,
           IF i + 20 < Len(filesToProcess) THEN i + 20 ELSE Len(filesToProcess))

\* the operations in hand are those of one batch: the candidates from a
\* multiple of 20 on, 20 of them or as many as are left, in the order of the
\* list; between batches none is in hand and the candidates before the next
\* batch have all been handed out
BatchesPartition ==
    /\ Cardinality(InFlight) <= 20
    /\ pc = "batch" =>
          /\ batchStart % 20 = 0
          /\ processed = batchStart
          /\ Len(ops) \in 1..20
          /\ [k \in 1..Len(ops) |-> ops[k].path] = BatchAt(batchStart)
    /\ pc = "loop" =>
          /\ ops = <<>>
          /\ processed = (IF batchStart < Len(filesToProcess) THEN batchStart
                          ELSE Len(filesToProcess))

\* a batch is started only when no operation is in hand, it is left only
\* when every operation of it has completed, and the next batch starts
\* where it ended
BatchesInTurn ==
    /\ (pc' = "batch" /\ pc # "batch") => (ops = <<>> /\ batchStart' = batchStart)
    /\ (pc = "batch" /\ pc' # "batch") =>
          /\ InFlight = {}
          /\ batchStart' = batchStart + 20
          /\ processed' = processed + Len(ops)

\* C25: the candidates are processed in consecutive batches of at most 20,
\* each candidate in exactly one batch; never more than 20 operations are in
\* flight; no operation of a batch starts before every operation of the
\* batch before it has completed.
C25_BatchesOfTwentyInTurn == []BatchesPartition /\ [][BatchesInTurn]_vars

\* the second batch of a list of 21 is in flight, the 20 operations of the
\* first having completed
C25_Witness ==
    /\ pc = "batch"
    /\ Len(filesToProcess) = 21
    /\ batchStart = 20
    /\ processed = 20
    /\ InFlight = {1}

(***************************************************************************)
(* Runs over projects in which files have the same size.                   *)
(***************************************************************************)
\* src/a.ts and dist/bundle.js are as large as src/b.md, or smaller
TieFileSystems ==
    {(Abs(SrcDir) :> DirEntry) @@ (Abs(DistDir) :> DirEntry) @@
     (Abs(SrcA) :> Text(a)) @@ (Abs(SrcB) :> Text(4)) @@ (Abs(DistJs) :> Text(j)) :
        a \in {2, 4}, j \in {3, 4}}

InitTies ==
    /\ config \in {c \in RunConfigs : c.exclude = <<>>}
    /\ files \in TieFileSystems
    /\ gitignoreRules = <<>>
    /\ options \in [includeItems : {<<>>, <<Abs(SrcB), Abs(SrcA)>>},
                    documentationType : {"", "documentation"}]
    /\ qPath = <<>>
    /\ qInclude = FALSE
    /\ qMaxSize = 0
    /\ InstanceInit
    /\ ToolsIdle

SpecTies == InitTies /\ [][Next]_vars

RECURSIVE statsInListOrder(_, _, _)
\* the statistics when the operations complete one after the other in the
\* order of the candidate list
statsInListOrder(st, list, done) ==
    IF list = <<>> THEN st
    ELSE LET p == Head(list)
             rest == Tail(list)
         IN  IF p \in done \/ ~shouldIncludeFile(p) \/ statThrows(p)
             THEN statsInListOrder(st, rest, done \cup {p})
             ELSE LET seen == onProgress(st, p, files[p].size)
                      kept == ~tooLarge(p, getMaxFileSizeForPath(p)) /\ ~readThrows(p)
                                 /\ ~gated(p, config.skipBinaryFiles, config.skipGeneratedFiles)
                  IN  statsInListOrder(IF kept THEN onResult(seen, files[p].size, files[p].chars)
                                       ELSE seen,
                                       rest, done \cup {p})

\* C26: the statistics at the end of the content phase of a run (the first
\* of an instance) are those of the operations completing in list order,
\* in whatever order they did complete.
C26_StatsOrderIndependent ==
    (runs = 1 /\ ContentOver) =>
        stats = statsInListOrder(InitialStats, filesToProcess, {})

(***************************************************************************)
(* The percents reported in a run.                                         *)
(***************************************************************************)
\* the number of batches a candidate list is processed in
BatchCount(n) == (n + 19) \div 20

\* the percents of the content phase: those after the 30 and before the 90
ContentPercents ==
    LET from == IF wantsStructure(docType) THEN 4 ELSE 3
    IN  SubSeq(progress, from, Len(progress) - 2)

\* C27: the percents reported in a run that succeeded are integers between
\* 0 and 100, start at 0, never decrease and end with 90 and 100; 10 is
\* reported when the structure phase ran; when the content phase ran, 30 is
\* reported once, then one percent per batch, not below 30 and, for the last
\* batch, 80; with no candidate there is no batch and no percent after 30.
C27_ProgressSequence ==
    pc = "done" =>
        /\ \A k \in 1..Len(progress) : progress[k] \in 0..100
        /\ \A k \in 1..(Len(progress) - 1) : progress[k] <= progress[k + 1]
        /\ progress[1] = 0
        /\ progress[Len(progress)] = 100
        /\ progress[Len(progress) - 1] = 90
        /\ wantsStructure(docType) => progress[2] = 10
        /\ Len(progress) = 3 + (IF wantsStructure(docType) THEN 1 ELSE 0)
                             + (IF wantsContent(docType)
                                THEN 1 + BatchCount(Len(filesToProcess)) ELSE 0)
        /\ wantsContent(docType) =>
              /\ progress[IF wantsStructure(docType) THEN 3 ELSE 2] = 30
              /\ Len(ContentPercents) = BatchCount(Len(filesToProcess))
              /\ ContentPercents # <<>> => ContentPercents[Len(ContentPercents)] = 80

\* a run of two batches over 21 candidates has succeeded
C27_Witness ==
    /\ pc = "done"
    /\ Len(filesToProcess) = 21
    /\ progress = <<0, 10, 30, 77, 80, 90, 100>>

RECURSIVE SizesOf(_)
\* the sum of the sizes of a list of File Records
SizesOf(records) ==
    IF records = <<>> THEN 0 ELSE Head(records).size + SizesOf(Tail(records))

\* C28: in every payload an instance produces, documented_files is the
\* number of File Records of the payload and documented_size the sum of
\* their sizes.
C28_PayloadStatsPerRun ==
    \A i \in 1..Len(payloads) :
        /\ payloads[i].documented_files = Len(payloads[i].files)
        /\ payloads[i].documented_size = SizesOf(payloads[i].files)

(***************************************************************************)
(* FileSelector: the checkboxes of the tree in the webview.  Every node of *)
(* the tree is rendered with its descendants, so each node has an element  *)
(* with a checkbox whose class is "checked", "partial" or neither ("").    *)
(***************************************************************************)
\* node.querySelectorAll('.tree-node'): the elements of the descendants
descendants(node) ==
    {m \in SelectorNodes : Len(m) > Len(node) /\ SubSeq(m, 1, Len(node)) = node}

\* parentNode.querySelector('.tree-children').children
childElements(node) == {m \in descendants(node) : Len(m) = Len(node) + 1}

\* node.parentElement.closest('.tree-node'): <<>> (null) above the root
parentElement(node) == IF node = rootDir THEN <<>> ELSE SubSeq(node, 1, Len(node) - 1)

RECURSIVE updateParentSelectionStatus(_, _)
\* updateParentSelectionStatus(parentNode) on the state st = [boxes, selected]
updateParentSelectionStatus(st, parentNode) ==
    IF parentNode = <<>> THEN st
    ELSE IF childElements(parentNode) = {} THEN st
    ELSE LET Marked(c)    == st.boxes[c] \in {"checked", "partial"}
             allSelected  == \A c \in childElements(parentNode) : Marked(c)
             noneSelected == \A c \in childElements(parentNode) : ~Marked(c)
             next == IF allSelected
                     THEN [boxes    |-> [st.boxes EXCEPT ![parentNode] = "checked"],
                           selected |-> st.selected \cup {parentNode}]
                     ELSE IF noneSelected
                          THEN [boxes    |-> [st.boxes EXCEPT ![parentNode] = ""],
                                selected |-> st.selected \ {parentNode}]
                          ELSE [boxes    |-> [st.boxes EXCEPT ![parentNode] = "partial"],
                                selected |-> st.selected \ {parentNode}]
         IN  updateParentSelectionStatus(next, parentElement(parentNode))

\* toggleSelection(node, path) on the state st = [boxes, selected]
toggleSelection(st, node) ==
    LET subtree == {node} \cup descendants(node)
        toggled == IF st.boxes[node] = "checked"
                   THEN [boxes    |-> [n \in SelectorNodes |->
                                          IF n \in subtree THEN "" ELSE st.boxes[n]],
                         selected |-> st.selected \ subtree]
                   ELSE [boxes    |-> [n \in SelectorNodes |->
                                          IF n \in subtree THEN "checked" ELSE st.boxes[n]],
                         selected |-> st.selected \cup subtree]
    IN  updateParentSelectionStatus(toggled, parentElement(node))

InitSelector ==
    /\ config = defaultConfig
    /\ files = [p \in AllPaths |-> Missing]
    /\ gitignoreRules = <<>>
    /\ options = NoOptions
    /\ qPath = <<>>
    /\ qInclude = FALSE
    /\ qMaxSize = 0
    /\ InstanceInit
    /\ ToolsIdle

\* the user clicks the checkbox of a node
ToggleSelection(node) ==
    /\ LET st == toggleSelection([boxes |-> checkbox, selected |-> selectedItems], node)
       IN  /\ checkbox' = st.boxes
           /\ selectedItems' = st.selected
    /\ UNCHANGED <<policyVars, runVars, toolVars, panel, listeners, opened>>

NextSelector == \E node \in SelectorNodes : ToggleSelection(node)

SpecSelector == InitSelector /\ [][NextSelector]_vars

\* the directories of the tree: the nodes that have descendants
SelectorDirs == {d \in SelectorNodes : descendants(d) # {}}

\* C29: a directory is shown checked exactly when it is in the selected set,
\* and then every descendant of it is in the selected set; a directory some
\* of whose descendants are selected and some are not is shown partial and
\* is not in the selected set; a directory none of whose descendants is
\* selected is unchecked and not in the selected set.
C29_CheckboxesFollowSubtree ==
    \A d \in SelectorDirs :
        /\ (checkbox[d] = "checked") <=> (d \in selectedItems)
        /\ d \in selectedItems => descendants(d) \subseteq selectedItems
        /\ (descendants(d) \cap selectedItems # {} /\ ~(descendants(d) \subseteq selectedItems))
              => (checkbox[d] = "partial" /\ d \notin selectedItems)
        /\ descendants(d) \cap selectedItems = {} => (checkbox[d] = "" /\ d \notin selectedItems)

(***************************************************************************)
(* DocumentationViewer.  A listener is the closure registered with         *)
(* onDidReceiveMessage: it is known by the project path of the parsed      *)
(* documentation it holds.                                                 *)
(***************************************************************************)
\* the documentation files shown: two JSON outputs of different projects, a
\* text output (whose project path is parsed as 'Unknown'), and a file that
\* cannot be read or parsed
Documents ==
    {[state |-> "parsed", projectPath |-> <<"projA">>],
     [state |-> "parsed", projectPath |-> <<"projB">>],
     [state |-> "parsed", projectPath |-> <<"Unknown">>],
     [state |-> "unreadable", projectPath |-> <<>>]}

\* the filePath of an openFile message: a relative path, or none
MessagePaths == {<<>>, SrcA, SrcB}

InitViewer ==
    /\ config = defaultConfig
    /\ files = [p \in AllPaths |-> Missing]
    /\ gitignoreRules = <<>>
    /\ options = NoOptions
    /\ qPath = <<>>
    /\ qInclude = FALSE
    /\ qMaxSize = 0
    /\ InstanceInit
    /\ ToolsIdle

\* showDocumentation(documentationPath): the panel is revealed, or created
\* with a webview of its own; the documentation is read and parsed, the html
\* is set and a listener is registered on the webview of the panel; when
\* reading or parsing throws, the panel is disposed, and the handler of its
\* disposal forgets it
ShowDocumentation(doc) ==
    /\ Len(listeners) < MaxShows
    /\ IF doc.state = "parsed"
       THEN /\ panel' = <<[projectPath |-> doc.projectPath]>>
            /\ listeners' = Append(IF panel = <<>> THEN <<>> ELSE listeners, doc.projectPath)
       ELSE /\ panel' = <<>>
            /\ listeners' = <<>>
    /\ opened' = <<>>
    /\ UNCHANGED <<policyVars, runVars, toolVars, checkbox, selectedItems>>

\* the user closes the panel: onDidDispose sets panel to undefined, and the
\* webview is gone with its listeners
DisposePanel ==
    /\ panel # <<>>
    /\ panel' = <<>>
    /\ listeners' = <<>>
    /\ opened' = <<>>
    /\ UNCHANGED <<policyVars, runVars, toolVars, checkbox, selectedItems>>

\* the webview posts one message {command: 'openFile', filePath}: every
\* listener registered on it runs, and each that finds a filePath executes
\* vscode.open on path.join(projectPath, filePath)
OpenFile(filePath) ==
    /\ panel # <<>>
    /\ opened' = <<[filePath |-> filePath,
                    commands |-> IF filePath = <<>> THEN <<>>
                                 ELSE [k \in 1..Len(listeners) |-> listeners[k] \o filePath]]>>
    /\ UNCHANGED <<policyVars, runVars, toolVars, checkbox, selectedItems, panel, listeners>>

NextViewer ==
    \/ \E doc \in Documents : ShowDocumentation(doc)
    \/ DisposePanel
    \/ \E filePath \in MessagePaths : OpenFile(filePath)

SpecViewer == InitViewer /\ [][NextViewer]_vars

\* C30: an openFile message that names a file triggers exactly one open
\* command, for the path of the file below the project path of the
\* documentation shown most recently.
C30_OneOpenPerMessage ==
    (opened # <<>> /\ opened[1].filePath # <<>>) =>
        opened[1].commands = <<panel[1].projectPath \o opened[1].filePath>>

====
